---- MODULE Spec2Model ----
(***************************************************************************)
(* Verification model of codex-discord: the session-file tailer            *)
(* (src/codex/session-watcher.ts), the mapping store                       *)
(* (src/storage/database.ts, src/storage/repositories.ts) and the          *)
(* new-session coordination of the bot (src/bot/client.ts).                *)
(***************************************************************************)
EXTENDS Integers, Sequences, FiniteSets, TLC

(***************************************************************************)
(* Bounds of the model.                                                    *)
(***************************************************************************)
\* records the log writer may write over the whole run
MaxRecords == 3
\* blank lines the log writer may write over the whole run
MaxBlank == 1
\* truncate-and-rewrite events of the watched file
MaxTruncations == 1
\* clock ticks of the run (one tick = one follow-up window unit)
MaxTime == 2
\* highest row id the direct repository calls may hand out
MaxRowId == 3

(***************************************************************************)
(* The watched session file.  A byte is a small integer: 0 is the line     *)
(* terminator, 2k-1 and 2k are the first and the second half of the JSON   *)
(* record number k.  A record needs both halves to parse, so a read that   *)
(* ends between them ends in a partial line.                               *)
(***************************************************************************)
NL == 0
OpenByte(k) == 2 * k - 1
CloseByte(k) == 2 * k
IsOpenByte(b) == b > 0 /\ b % 2 = 1

\* JSON.parse(text) succeeds: the text is exactly one whole record.
JSONParses(text) ==
    /\ Len(text) = 2
    /\ IsOpenByte(text[1])
    /\ text[2] = text[1] + 1

\* String.prototype.trim() leaves something: the model has no blank bytes
\* other than the terminator, which split() has already removed.
TrimNonEmpty(l) == Len(l) > 0

\* String.prototype.split("\n")
RECURSIVE Split(_)
Split(s) ==
    IF \A i \in 1..Len(s) : s[i] # NL
    THEN <<s>>
    ELSE LET i == CHOOSE j \in 1..Len(s) :
                      s[j] = NL /\ \A m \in 1..(j - 1) : s[m] # NL
         IN <<SubSeq(s, 1, i - 1)>> \o Split(SubSeq(s, i + 1, Len(s)))

EndsWithNL(s) == Len(s) > 0 /\ s[Len(s)] = NL

\* parseSessionMeta: the first line of the file must parse (the writer's first
\* record of a file is its session_meta record).
ParseSessionMetaOk(f) ==
    LET firstLine == Split(f)[1]
    IN firstLine # <<>> /\ JSONParses(firstLine)

\* readSync of the byte range [prevOffset, currentSize)
ReadRange(f, prevOffset, currentSize) == SubSeq(f, prevOffset + 1, currentSize)

\* The mutant of the assembly that keeps as partial line a fragment it has
\* emitted.
AssembleKeepEmitted(previousPartial, newContent) ==
    LET combined == previousPartial \o newContent
        parts == Split(combined)
        popped == ~EndsWithNL(combined)
        parts1 == IF popped THEN SubSeq(parts, 1, Len(parts) - 1) ELSE parts
        trailing0 == IF popped THEN parts[Len(parts)] ELSE <<>>
        emitNow == trailing0 # <<>> /\ JSONParses(trailing0)
        parts2 == IF emitNow THEN Append(parts1, trailing0) ELSE parts1
    IN [partial |-> trailing0,
        newLines |-> SelectSeq(parts2, TrimNonEmpty)]

\* Lines 192-217 of processUpdate: carry the partial line over, split, emit a
\* trailing fragment that already parses, drop blank lines.
Assemble(previousPartial, newContent) ==
    LET combined == previousPartial \o newContent
        parts == Split(combined)
        popped == ~EndsWithNL(combined)
        parts1 == IF popped THEN SubSeq(parts, 1, Len(parts) - 1) ELSE parts
        trailing0 == IF popped THEN parts[Len(parts)] ELSE <<>>
        emitNow == trailing0 # <<>> /\ JSONParses(trailing0)
        parts2 == IF emitNow THEN Append(parts1, trailing0) ELSE parts1
    IN [partial |-> IF emitNow THEN <<>> ELSE trailing0,
        newLines |-> SelectSeq(parts2, TrimNonEmpty)]

(***************************************************************************)
(* State of the tailer (SessionWatcher), of the file and of its writer.    *)
(***************************************************************************)
NoOffset == -1
NoDeadline == -1
FOLLOW_UP_WINDOW == 1

VARIABLES
    fileExists,        \* the session file exists on disk
    file,              \* its bytes
    fileOffsets,       \* SessionWatcher.fileOffsets.get(file), NoOffset if absent
    partialLines,      \* SessionWatcher.partialLines.get(file), <<>> if absent
    sessionCache,      \* SessionWatcher.sessionCache.has(file)
    pending,           \* a debounce timer is scheduled for the file
    followUpPollers,   \* a follow-up poll timer is scheduled for the file
    followUpDeadlines, \* SessionWatcher.followUpDeadlines.get(file)
    now,               \* Date.now(), in window units
    delivered,         \* lines handed to onSessionUpdate, batches concatenated
    newSessions,       \* calls of onNewSession
    nextRec,           \* writer: number of the next record to write
    blanks,            \* writer: blank lines written so far
    truncs,            \* truncate-and-rewrite events so far
    genStart,          \* number of the first record of the current file content
    everLines,         \* every complete logical line the file ever held
    synced,            \* a processUpdate has run since the file last changed
    markedAt,          \* offset recorded by markSeen at startup, NoOffset if none
    announcedAt,       \* lines delivered before onNewSession was called,
                       \* NoOffset if it never was
    pollTimers,        \* setTimeout(tick) timers of the file not yet fired
    stopped,           \* stop() has closed the watcher
    polled             \* lines handed over by follow-up ticks

wvars == <<fileExists, file, fileOffsets, partialLines, sessionCache, pending,
           followUpPollers, followUpDeadlines, now, delivered, newSessions,
           nextRec, blanks, truncs, genStart, everLines, synced, markedAt,
           announcedAt, pollTimers, stopped, polled>>

(***************************************************************************)
(* State of the mapping store, of the chat platform and of the bot.        *)
(***************************************************************************)
VARIABLES
    projects,          \* rows of table projects
    threads,           \* rows of table threads
    nextProjectId,     \* AUTOINCREMENT of projects.id
    nextThreadRowId,   \* AUTOINCREMENT of threads.id
    lastCall           \* the last direct repository call and its outcome

svars == <<projects, threads, nextProjectId, nextThreadRowId, lastCall>>

VARIABLES
    channels,          \* chat platform: the channels that exist, with topic
    dthreads,          \* chat platform: the chat threads that exist
    nextChannel,       \* chat platform: id of the next channel
    nextDThread,       \* chat platform: id of the next chat thread
    threadEvents       \* chat threads whose ThreadCreate event is undelivered

dvars == <<channels, dthreads, nextChannel, nextDThread, threadEvents>>

VARIABLES
    syncLocks,         \* DiscordBot.syncLocks: key -> trigger whose promise is stored
    tasks,             \* the handleNewSession calls and where each stands
    arrivals,          \* handleNewSession calls so far
    linked,            \* chat threads whose row was linked by updateCodexThreadId
    userThreads,       \* chat threads created by users so far
    messages,          \* user messages handled so far
    turn               \* the interactive turn in flight, if any

kvars == <<syncLocks, tasks, arrivals, linked>>
uvars == <<userThreads, messages, turn>>

\* The slash commands that create projects.
VARIABLES
    setup,             \* the /setup command in flight, if any, and how many ran
    sync               \* the /sync-projects command in flight, if any
cvars == <<setup, sync>>

\* The live replay of session lines into chat threads.
VARIABLES
    pendingSessionLines, \* DiscordBot.pendingSessionLines: session -> buffered lines
    calls,             \* the handleSessionUpdate calls past their first await
    posted,            \* the replayed lines the chat platform received, in order
    emitted,           \* how many lines the tailer has handed over
    everBuffered,      \* per session, the lines that went into the buffer, in order
    spliced            \* the lines the buffer cap pushed out
lvars == <<pendingSessionLines, calls, posted, emitted, everBuffered, spliced>>

\* The interactive turns of MessageSync.
VARIABLES
    processing,        \* MessageSync.processing: the chat threads with a turn in flight
    recentWatcherEchoes, \* MessageSync.recentWatcherEchoes: chat thread -> entry
    turns,             \* the handleUserMessage calls awaiting their agent turn
    chat,              \* the messages the bot sent to chat threads
    threadStatus,      \* the status column of the Thread rows
    userMessages,      \* how many user messages reached handleMessage
    started,           \* the user messages that started a turn
    failed,            \* the user messages whose turn threw
    written            \* the texts the agent wrote to the session files
tvars == <<processing, recentWatcherEchoes, turns, chat, threadStatus,
           userMessages, started, failed, written>>

\* The processes started on one machine and their single-instance lock.
VARIABLES
    lockFile,          \* the lock file: who created it and the pid written in it
    procs              \* per process: where main and acquireProcessLock stand
pvars == <<lockFile, procs>>

\* The store beyond its project and thread rows, and its startups.
VARIABLES
    messageRows,       \* the rows of the messages table
    uniqueIndexes,     \* which of the two unique indexes exist
    startupLog,        \* per completed initDatabase: the store before, between
                       \* the two reconciliation passes, and after
    startupThrew,      \* did an initDatabase throw
    lastDelete         \* the last ProjectRepo.delete and the store before it
mvars == <<messageRows, uniqueIndexes, startupLog, startupThrew, lastDelete>>

ovars == <<tvars, pvars, mvars>>

\* One handleSessionUpdate call's loop over the lines of its batch.
VARIABLES
    newLines,          \* the batch the call was given
    lineAt,            \* the index of the line the loop is at
    batchPc,           \* idle, loop, returned or threw
    sends,             \* the channel.send calls made, in order, with their outcome
    sentUserBatch,     \* the user texts sent in this batch
    sentAssistantBatch \* the assistant texts sent in this batch
xvars == <<newLines, lineAt, batchPc, sends, sentUserBatch, sentAssistantBatch>>

bvars == <<svars, dvars, kvars, uvars, cvars, lvars, ovars, xvars>>

vars == <<wvars, bvars>>

\* The complete logical lines of a content: the non-blank terminated lines and
\* a trailing unterminated fragment that is a whole record.
CompleteLines(f) ==
    IF f = <<>> THEN <<>>
    ELSE LET parts == Split(f)
             last == parts[Len(parts)]
             body == SubSeq(parts, 1, Len(parts) - 1)
             all == IF last # <<>> /\ JSONParses(last) THEN parts ELSE body
         IN SelectSeq(all, LAMBDA l : l # <<>>)

SeqToSet(s) == {s[i] : i \in 1..Len(s)}

(***************************************************************************)
(* SessionWatcher.processUpdate, as a function of the state it reads.      *)
(***************************************************************************)
\* Lines 177-237: there are bytes past prevOffset.  The offset advances before
\* the session is looked up, so a failed lookup drops the lines.
ReadNewBytes(prevOffset, prevPartial, cached) ==
    LET currentSize == Len(file)
        a == Assemble(prevPartial, ReadRange(file, prevOffset, currentSize))
        haveSession == cached \/ ParseSessionMetaOk(file)
        emit == a.newLines # <<>> /\ haveSession
    IN [offset |-> currentSize,
        partial |-> a.partial,
        lines |-> IF emit THEN a.newLines ELSE <<>>,
        cached |-> IF a.newLines # <<>> THEN haveSession ELSE cached,
        extend |-> emit]

\* The mutant of processUpdate that forgets the carried-over partial line.
ProcessUpdateNoCarry(offset, partial, cached) ==
    LET prevOffset == IF offset = NoOffset THEN 0 ELSE offset
        currentSize == Len(file)
        idle == [offset |-> offset, partial |-> partial, lines |-> <<>>,
                 cached |-> cached, extend |-> FALSE]
    IN IF currentSize = prevOffset THEN idle
       ELSE IF currentSize < prevOffset
            THEN IF currentSize = 0
                 THEN [idle EXCEPT !.offset = 0, !.partial = <<>>]
                 ELSE ReadNewBytes(0, <<>>, cached)
            ELSE ReadNewBytes(prevOffset, <<>>, cached)

\* processUpdate (lines 156-238) called with the given map entries.
ProcessUpdate(offset, partial, cached) ==
    LET prevOffset == IF offset = NoOffset THEN 0 ELSE offset
        currentSize == Len(file)
        idle == [offset |-> offset, partial |-> partial, lines |-> <<>>,
                 cached |-> cached, extend |-> FALSE]
    IN IF currentSize = prevOffset THEN idle
       ELSE IF currentSize < prevOffset
            \* truncated or rewritten: reset and replay from the start
            THEN IF currentSize = 0
                 THEN [idle EXCEPT !.offset = 0, !.partial = <<>>]
                 ELSE ReadNewBytes(0, <<>>, cached)
            ELSE ReadNewBytes(prevOffset, partial, cached)

\* extendFollowUpPolling (lines 240-263): push the deadline, arm one poller.
ExtendedDeadline(deadline) ==
    LET until == now + FOLLOW_UP_WINDOW
        existing == IF deadline = NoDeadline THEN 0 ELSE deadline
    IN IF existing > until THEN existing ELSE until

(***************************************************************************)
(* The mapping store: tables projects and threads with their uniqueness    *)
(* constraints, and the repositories over them.                            *)
(***************************************************************************)
Paths == {"/a", "/b"}
Sessions == {"S1", "S2", "S3"}
\* session_meta.payload.cwd of each session, canonicalized
Cwd(s) == IF s = "S3" THEN "/b" ELSE "/a"

Null == "null"
NoRow == [id |-> 0]
NoCall == [op |-> "none"]

\* database.ts:114 channel_id TEXT UNIQUE, and the unique index on
\* project_path (createIndexes): the INSERT fails if either is taken.
ProjectInsertFails(ps, channelId, projectPath) ==
    \/ \E r \in ps : r.channel_id = channelId
    \/ \E r \in ps : r.project_path = projectPath

\* The mutant of the store without the unique index on codex_thread_id.
SessionIdTakenNoIndex(ts, discordThreadId, codexThreadId) == FALSE

\* createIndexes, idx_threads_codex_thread_unique: another row holds the
\* session id (NULLs do not collide).
SessionIdTaken(ts, discordThreadId, codexThreadId) ==
    /\ codexThreadId # Null
    /\ \E r \in ts : /\ r.codex_thread_id = codexThreadId
                     /\ r.discord_thread_id # discordThreadId

\* database.ts:124 discord_thread_id TEXT UNIQUE, the unique index on
\* codex_thread_id (NULLs do not collide) and the foreign key to projects.
ThreadInsertFails(ts, ps, discordThreadId, projectId, codexThreadId) ==
    \/ \E r \in ts : r.discord_thread_id = discordThreadId
    \/ SessionIdTaken(ts, discordThreadId, codexThreadId)
    \/ ~\E p \in ps : p.id = projectId

ProjectGetByChannelId(ps, channelId) ==
    IF \E r \in ps : r.channel_id = channelId
    THEN CHOOSE r \in ps : r.channel_id = channelId
    ELSE NoRow

ThreadGetByDiscordThreadId(ts, discordThreadId) ==
    IF \E r \in ts : r.discord_thread_id = discordThreadId
    THEN CHOOSE r \in ts : r.discord_thread_id = discordThreadId
    ELSE NoRow

\* The mutant of the lookup by session id that never finds a row.
ThreadGetByCodexThreadIdNone(ts, codexThreadId) == NoRow

ThreadGetByCodexThreadId(ts, codexThreadId) ==
    IF \E r \in ts : r.codex_thread_id = codexThreadId
    THEN CHOOSE r \in ts : r.codex_thread_id = codexThreadId
    ELSE NoRow

\* ProjectRepo.create: a plain INSERT, then getByChannelId.  A failed INSERT
\* throws out of create.
ProjectRepoCreate(ps, nextId, channelId, projectPath) ==
    IF ProjectInsertFails(ps, channelId, projectPath)
    THEN [threw |-> TRUE, rows |-> ps, row |-> NoRow, nextId |-> nextId]
    ELSE LET row == [id |-> nextId, channel_id |-> channelId,
                     project_path |-> projectPath]
         IN [threw |-> FALSE, rows |-> ps \cup {row},
             row |-> ProjectGetByChannelId(ps \cup {row}, channelId),
             nextId |-> nextId + 1]

\* ThreadRepo.create: a plain INSERT, then getByDiscordThreadId.
ThreadRepoCreate(ts, ps, nextId, discordThreadId, projectId, codexThreadId) ==
    IF ThreadInsertFails(ts, ps, discordThreadId, projectId, codexThreadId)
    THEN [threw |-> TRUE, rows |-> ts, row |-> NoRow, nextId |-> nextId]
    ELSE LET row == [id |-> nextId, discord_thread_id |-> discordThreadId,
                     codex_thread_id |-> codexThreadId, project_id |-> projectId]
         IN [threw |-> FALSE, rows |-> ts \cup {row},
             row |-> ThreadGetByDiscordThreadId(ts \cup {row}, discordThreadId),
             nextId |-> nextId + 1]

\* ThreadRepo.updateCodexThreadId: the UPDATE fails on the unique index when
\* another row already has the session id.
ThreadRepoUpdateCodexThreadId(ts, discordThreadId, codexThreadId) ==
    IF /\ \E q \in ts : q.discord_thread_id = discordThreadId
       /\ SessionIdTaken(ts, discordThreadId, codexThreadId)
    THEN [threw |-> TRUE, rows |-> ts]
    ELSE [threw |-> FALSE,
          rows |-> {IF r.discord_thread_id = discordThreadId
                    THEN [r EXCEPT !.codex_thread_id = codexThreadId]
                    ELSE r : r \in ts}]

\* ProjectRepo.delete: the project's threads, then the project.
ThreadsAfterProjectDelete(ts, projectId) == {r \in ts : r.project_id # projectId}
ProjectsAfterProjectDelete(ps, projectId) == {r \in ps : r.id # projectId}

(***************************************************************************)
(* The tailer's specification: the writer, the file-change notifications,  *)
(* the debounce timer, the follow-up poller and the clock.                 *)
(***************************************************************************)
WatcherStart ==
    /\ partialLines = <<>>
    /\ sessionCache = FALSE
    /\ pending = FALSE
    /\ followUpPollers = FALSE
    /\ followUpDeadlines = NoDeadline
    /\ now = 0
    /\ delivered = <<>>
    /\ newSessions = 0
    /\ blanks = 0
    /\ truncs = 0
    /\ genStart = 1
    /\ synced = FALSE
    /\ announcedAt = NoOffset
    /\ pollTimers = 0
    /\ stopped = FALSE
    /\ polled = 0

\* No session file yet when the watcher starts.
InitFresh ==
    /\ WatcherStart
    /\ fileExists = FALSE
    /\ file = <<>>
    /\ fileOffsets = NoOffset
    /\ markedAt = NoOffset
    /\ nextRec = 1
    /\ everLines = {}

\* The mutant of markSeen that records the start of the file.
MarkSeenFromStart(f) == 0

\* markSeen, lines 56-57: the offset recorded is the size of the file.
MarkSeen(f) == Len(f)

\* markSeen (lines 54-63) of a file that exists at startup, found by the scan
\* through its session meta: the offset is its size and the partial line is
\* dropped.  The writer may be in the middle of a record.
InitMarkSeen ==
    /\ WatcherStart
    /\ fileExists = TRUE
    /\ file \in {<<OpenByte(1), CloseByte(1), NL>>,
                 <<OpenByte(1), CloseByte(1), NL, OpenByte(2)>>}
    /\ fileOffsets = MarkSeen(file)
    /\ markedAt = Len(file)
    /\ nextRec = IF Len(file) = 3 THEN 2 ELSE 3
    /\ everLines = SeqToSet(CompleteLines(file))

StoreEmpty ==
    /\ projects = {}
    /\ threads = {}
    /\ nextProjectId = 1
    /\ nextThreadRowId = 1
    /\ lastCall = NoCall

\* triggers of new-session handling in a run
MaxTriggers == 3
Tasks == 1..MaxTriggers
\* chat threads users create in a run
MaxUserThreads == 1
\* user messages in a run
MaxMessages == 1

IdleTask == [pc |-> "idle", session |-> Null, prev |-> 0, ticket |-> 0,
             project |-> NoRow, channel |-> 0, dthread |-> 0, outcome |-> "none",
             fetchError |-> 0]
NoTurn == [pc |-> "idle"]
MaxSetups == 1
MaxSyncs == 1
NoSetup == [pc |-> "idle", path |-> Null, channel |-> 0, runs |-> 0,
            outcome |-> "none"]
NoSync == [pc |-> "idle", paths |-> <<>>, path |-> Null, channel |-> 0,
           project |-> NoRow, sessions |-> <<>>, dthread |-> 0, runs |-> 0,
           outcome |-> "none"]

\* The chat server before the bot made anything.
ChatEmpty ==
    /\ channels = {}
    /\ dthreads = {}
    /\ nextChannel = 1
    /\ nextDThread = 1
    /\ threadEvents = <<>>

\* The chat threads the interactive turns are about, by their chat id.
TurnThreads == {1, 2}

\* No entry of recentWatcherEchoes for a thread (Map.get gives undefined).
NoEntry == [present |-> FALSE, expiresAt |-> 0, user |-> {}, assistant |-> {}]

\* MessageSync after construction: no turn in flight, no echo entry.
TurnsIdle ==
    /\ processing = {}
    /\ recentWatcherEchoes = [d \in TurnThreads |-> NoEntry]
    /\ turns = {}
    /\ chat = {}
    /\ threadStatus = [d \in TurnThreads |-> "active"]
    /\ userMessages = 0
    /\ started = {}
    /\ failed = {}
    /\ written = {}

\* The store as the repositories find it: opened by initDatabase, both unique
\* indexes made, no message row.
StoreOpened ==
    /\ messageRows = {}
    /\ uniqueIndexes = [paths |-> TRUE, sessions |-> TRUE]
    /\ startupLog = <<>>
    /\ startupThrew = FALSE
    /\ lastDelete = NoCall

\* The single-instance lock (process-lock.ts).
Procs == {1, 2}
OldProc == 3
LockRetries == 1
NoLockFile == [creator |-> 0, pid |-> 0]
StaleLockFile == [creator |-> OldProc, pid |-> OldProc]
NotStarted == [pc |-> "idle", attempt |-> 0, locked |-> FALSE, store |-> FALSE,
               bot |-> FALSE, failed |-> FALSE, ownerPid |-> 0, stale |-> 0]

\* No other process of the program is started meanwhile.
NoProcesses ==
    /\ lockFile = NoLockFile
    /\ procs = [p \in Procs |-> NotStarted]

\* The bot's own state after construction: nothing in flight.
BotIdle ==
    /\ syncLocks = [p \in Paths |-> 0]
    /\ tasks = [t \in Tasks |-> IdleTask]
    /\ arrivals = 0
    /\ linked = {}
    /\ userThreads = 0
    /\ messages = 0
    /\ turn = NoTurn
    /\ setup = NoSetup
    /\ sync = NoSync
    /\ pendingSessionLines = [s \in Sessions |-> <<>>]
    /\ calls = {}
    /\ posted = <<>>
    /\ emitted = 0
    /\ everBuffered = [s \in Sessions |-> <<>>]
    /\ spliced = {}
    /\ newLines = <<>>
    /\ lineAt = 1
    /\ batchPc = "idle"
    /\ sends = <<>>
    /\ sentUserBatch = {}
    /\ sentAssistantBatch = {}
    /\ TurnsIdle

InitWatcher == (InitFresh \/ InitMarkSeen) /\ StoreEmpty /\ ChatEmpty /\ BotIdle /\ NoProcesses /\ StoreOpened

\* The bytes the writer may append next: the next half of the record it is
\* writing, the terminator after a whole record, a new record or a blank line
\* at the start of a line.  The first bytes of a file are its first record.
AtLineStart == file = <<>> \/ file[Len(file)] = NL

NextBytes ==
    IF AtLineStart
    THEN (IF nextRec <= MaxRecords THEN {OpenByte(nextRec)} ELSE {})
         \cup (IF file # <<>> /\ blanks < MaxBlank THEN {NL} ELSE {})
    ELSE IF IsOpenByte(file[Len(file)])
         THEN {file[Len(file)] + 1}
         ELSE {NL}

\* The agent process appends one byte (a write of several bytes is several
\* of these steps with no read in between).
WriterAppend ==
    /\ \E b \in NextBytes :
        /\ file' = Append(file, b)
        /\ nextRec' = IF IsOpenByte(b) THEN nextRec + 1 ELSE nextRec
        /\ blanks' = IF b = NL /\ AtLineStart THEN blanks + 1 ELSE blanks
    /\ fileExists' = TRUE
    /\ everLines' = everLines \cup SeqToSet(CompleteLines(file'))
    /\ synced' = FALSE
    /\ UNCHANGED <<fileOffsets, partialLines, sessionCache, pending,
                   followUpPollers, followUpDeadlines, now, delivered,
                   newSessions, truncs, genStart, markedAt,
                   announcedAt, pollTimers, stopped, polled>>
    /\ UNCHANGED bvars

\* The file is truncated to zero, to be rewritten from scratch.
WriterTruncate ==
    /\ fileExists
    /\ file # <<>>
    /\ truncs < MaxTruncations
    /\ file' = <<>>
    /\ truncs' = truncs + 1
    /\ genStart' = nextRec
    /\ synced' = FALSE
    /\ UNCHANGED <<fileExists, fileOffsets, partialLines, sessionCache, pending,
                   followUpPollers, followUpDeadlines, now, delivered,
                   newSessions, nextRec, blanks, everLines, markedAt,
                   announcedAt, pollTimers, stopped, polled>>
    /\ UNCHANGED bvars

\* fs.watch callback -> scheduleProcess (lines 110-121): (re)arm the debounce
\* timer.  Notifications may come at any time, more than once, or not at all.
Notify ==
    /\ ~stopped
    /\ pending' = TRUE
    /\ UNCHANGED <<fileExists, file, fileOffsets, partialLines, sessionCache,
                   followUpPollers, followUpDeadlines, now, delivered,
                   newSessions, nextRec, blanks, truncs, genStart, everLines,
                   synced, markedAt, announcedAt, pollTimers, stopped, polled>>
    /\ UNCHANGED bvars

\* The effect of processUpdate followed by extendFollowUpPolling, from the
\* given map entries; alsoExtend tells processFile's call from the tick's.
\* extendFollowUpPolling sets a timer only when the file has no entry in
\* followUpPollers (line 245); the tick sets its next timer itself (257).
ApplyUpdate(offset, partial, cached, alsoExtend) ==
    LET r == ProcessUpdate(offset, partial, cached)
        d1 == IF r.extend THEN ExtendedDeadline(followUpDeadlines)
              ELSE followUpDeadlines
        d2 == IF alsoExtend THEN ExtendedDeadline(d1) ELSE d1
        fired == IF alsoExtend THEN 0 ELSE 1
        set == IF ~alsoExtend THEN 1
               ELSE IF followUpPollers THEN 0 ELSE 1
        extra == IF ~alsoExtend /\ r.extend /\ ~followUpPollers THEN 1 ELSE 0
    IN /\ fileOffsets' = r.offset
       /\ partialLines' = r.partial
       /\ sessionCache' = r.cached
       /\ delivered' = delivered \o r.lines
       /\ followUpDeadlines' = d2
       /\ followUpPollers' = (followUpPollers \/ r.extend \/ alsoExtend)
       /\ pollTimers' = pollTimers - fired + set + extra
       /\ polled' = IF alsoExtend THEN polled ELSE polled + Len(r.lines)
       /\ synced' = TRUE

\* The mutant of processFile that starts a new file at its end.
FirstOffsetAtEnd(f) == Len(f)

\* The offset processFile records for a file it has not seen (line 135).
FirstOffset(f) == 0

\* The debounce timer fires: processFile (lines 123-154).  For a file without
\* an offset whose session meta parses, onNewSession is called (143) before
\* processUpdate (147).
ProcessFile ==
    /\ pending
    /\ pending' = FALSE
    /\ IF ~fileExists
       THEN UNCHANGED <<fileOffsets, partialLines, sessionCache, delivered,
                        followUpDeadlines, followUpPollers, synced, newSessions,
                        announcedAt, pollTimers, polled>>
       ELSE IF fileOffsets = NoOffset
            THEN IF ~ParseSessionMetaOk(file)
                 THEN UNCHANGED <<fileOffsets, partialLines, sessionCache,
                                  delivered, followUpDeadlines, followUpPollers,
                                  synced, newSessions, announcedAt,
                                  pollTimers, polled>>
                 ELSE /\ newSessions' = newSessions + 1
                      /\ announcedAt' = Len(delivered)
                      /\ ApplyUpdate(FirstOffset(file), partialLines, TRUE, TRUE)
            ELSE /\ UNCHANGED <<newSessions, announcedAt>>
                 /\ ApplyUpdate(fileOffsets, partialLines, sessionCache, TRUE)
    /\ UNCHANGED <<fileExists, file, now, nextRec, blanks, truncs, genStart,
                   everLines, markedAt, stopped>>
    /\ UNCHANGED bvars

\* The mutant of the tick that never gives up.
PollExpiredNever == FALSE

\* The test of the tick, line 249.
PollExpired == now > followUpDeadlines \/ ~fileExists

\* A follow-up poll timer fires: tick (lines 247-259).
PollTick ==
    /\ pollTimers > 0
    /\ IF PollExpired
       THEN /\ followUpDeadlines' = NoDeadline
            /\ followUpPollers' = FALSE
            /\ pollTimers' = pollTimers - 1
            /\ UNCHANGED <<fileOffsets, partialLines, sessionCache, delivered,
                           synced, polled>>
       ELSE ApplyUpdate(fileOffsets, partialLines, sessionCache, FALSE)
    /\ UNCHANGED <<fileExists, file, pending, now, newSessions, nextRec, blanks,
                   truncs, genStart, everLines, markedAt,
                   announcedAt, stopped>>
    /\ UNCHANGED bvars

\* Time passes.
ClockTick ==
    /\ now < MaxTime
    /\ now' = now + 1
    /\ UNCHANGED <<fileExists, file, fileOffsets, partialLines, sessionCache,
                   pending, followUpPollers, followUpDeadlines, delivered,
                   newSessions, nextRec, blanks, truncs, genStart, everLines,
                   synced, markedAt, announcedAt, pollTimers, stopped, polled>>
    /\ UNCHANGED bvars

NextWatcher ==
    \/ WriterAppend
    \/ WriterTruncate
    \/ Notify
    \/ ProcessFile
    \/ PollTick
    \/ ClockTick

SpecWatcher == InitWatcher /\ [][NextWatcher]_vars

(***************************************************************************)
(* New-session handling (DiscordBot.handleNewSession and                   *)
(* _handleNewSessionImpl), one action per stretch of code between awaits.  *)
(* The project directories exist and the guild is in the cache.            *)
(***************************************************************************)
TaskPath(t) == Cwd(tasks[t].session)
ChannelExists(id) == \E c \in channels : c.id = id

\* findProjectByPath: the row whose path canonicalizes to the key, found by
\* the lookup by path or else by the scan of getAll (lines 299-308); every
\* caller of ProjectRepo.create stores the canonical path.
FindProjectByPath(ps, projectPath) ==
    IF \E r \in ps : r.project_path = projectPath
    THEN CHOOSE r \in ps : r.project_path = projectPath
    ELSE NoRow

\* The mutant of the chain that starts a task without waiting for its
\* predecessor.
MayStartUnchained(t) == TRUE

\* The mutant of the chain that never finds a stored promise.
ChainedAfterNothing(p) == 0

\* syncLocks.get(projectPath) ?? Promise.resolve(), line 117: the trigger
\* whose promise the new one is chained on, 0 for the resolved promise.
ChainedAfter(p) == syncLocks[p]

\* The mutant of the chain that stores the task's own promise, so that a
\* rejection reaches the tasks chained on it.
MayStartUnlessRejected(t) ==
    IF tasks[t].prev = 0 THEN TRUE
    ELSE /\ tasks[tasks[t].prev].pc = "done"
         /\ tasks[tasks[t].prev].outcome # "threw"

\* prev.then(...): the task starts once the promise stored for its key when it
\* arrived has settled.
MayStart(t) ==
    IF tasks[t].prev = 0 THEN TRUE ELSE tasks[tasks[t].prev].pc = "done"

Settled(t, outcome) ==
    [IdleTask EXCEPT !.pc = "done", !.session = tasks[t].session,
                     !.prev = tasks[t].prev, !.ticket = tasks[t].ticket,
                     !.fetchError = tasks[t].fetchError,
                     !.outcome = outcome]

\* The mutant of the finally block that drops the key's entry whoever made
\* it.
ReleasedAlways(t) == [syncLocks EXCEPT ![TaskPath(t)] = 0]

\* The finally block of handleNewSession, lines 124-128: the key's entry is
\* dropped if it is still this task's promise.
Released(t) ==
    IF syncLocks[TaskPath(t)] = t
    THEN [syncLocks EXCEPT ![TaskPath(t)] = 0]
    ELSE syncLocks

\* The task settles and the finally block of handleNewSession runs.
Finish(t, outcome) ==
    /\ tasks' = [tasks EXCEPT ![t] = Settled(t, outcome)]
    /\ syncLocks' = Released(t)

\* handleNewSession, lines 116-120: chain on the key's stored promise.
NSTrigger(t, s) ==
    /\ tasks[t].pc = "idle"
    /\ \A u \in Tasks : u < t => tasks[u].pc # "idle"
    /\ tasks' = [tasks EXCEPT ![t] =
                    [IdleTask EXCEPT !.pc = "queued", !.session = s,
                                     !.prev = ChainedAfter(Cwd(s)),
                                     !.ticket = arrivals + 1]]
    /\ syncLocks' = [syncLocks EXCEPT ![Cwd(s)] = t]
    /\ arrivals' = arrivals + 1
    /\ UNCHANGED <<linked, svars, dvars, uvars, cvars, lvars, ovars, wvars, xvars>>

\* _handleNewSessionImpl, lines 138-152 and 179-187: look the project up, then
\* fetch its channel or create one.
NSStart(t) ==
    /\ tasks[t].pc = "queued"
    /\ MayStart(t)
    /\ LET project == FindProjectByPath(projects, TaskPath(t))
       IN tasks' = [tasks EXCEPT
                       ![t].pc = IF project # NoRow THEN "fetch" ELSE "createChannel",
                       ![t].project = project]
    /\ UNCHANGED <<syncLocks, arrivals, linked, svars, dvars, uvars, cvars, lvars, ovars, wvars, xvars>>

\* The error codes guild.channels.fetch can fail with for a channel id: the
\* platform's "unknown channel" and "missing access" for a channel the bot
\* cannot reach, and for any channel a passing failure such as a rate limit.
FetchErrors(id) ==
    IF ChannelExists(id) THEN {429} ELSE {10003, 50001, 429}

\* The mutant of the catch block that takes every failed fetch for a stale
\* project.
IsStaleChannelErrorAlways(code) == TRUE

\* The mutant of the catch block that knows "unknown channel" only.
IsStaleChannelErrorUnknownOnly(code) == code = 10003

\* The test of the catch block, line 160.
IsStaleChannelError(code) == code = 10003 \/ code = 50001

\* guild.channels.fetch returns (lines 152-177): the channel, an error that
\* says it is gone, or a transient error.
NSFetched(t) ==
    /\ tasks[t].pc = "fetch"
    /\ \E code \in FetchErrors(tasks[t].project.channel_id)
                   \cup (IF ChannelExists(tasks[t].project.channel_id)
                         THEN {0} ELSE {}) :
        IF code = 0
        THEN /\ tasks' = [tasks EXCEPT
                             ![t].channel = tasks[t].project.channel_id,
                             ![t].pc = "threadSection"]
             /\ UNCHANGED <<syncLocks, projects, threads>>
        ELSE IF IsStaleChannelError(code)
        THEN /\ threads' = ThreadsAfterProjectDelete(threads, tasks[t].project.id)
             /\ projects' = ProjectsAfterProjectDelete(projects, tasks[t].project.id)
             /\ tasks' = [tasks EXCEPT ![t].project = NoRow,
                                       ![t].fetchError = code,
                                       ![t].pc = "createChannel"]
             /\ UNCHANGED syncLocks
        ELSE /\ tasks' = [tasks EXCEPT ![t] =
                             [Settled(t, "aborted") EXCEPT !.fetchError = code]]
             /\ syncLocks' = Released(t)
             /\ UNCHANGED <<projects, threads>>
    /\ UNCHANGED <<nextProjectId, nextThreadRowId, lastCall, arrivals, linked,
                   dvars, uvars, cvars, lvars, ovars, wvars, xvars>>

\* guild.channels.create returns (lines 183-216): insert the project row and
\* compare the returned row's channel with the one just created.
NSChannelCreated(t) ==
    /\ tasks[t].pc = "createChannel"
    /\ LET c == nextChannel
           r == ProjectRepoCreate(projects, nextProjectId, c, TaskPath(t))
       IN /\ channels' = channels \cup {[id |-> c, topic |-> TaskPath(t)]}
          /\ nextChannel' = c + 1
          /\ projects' = r.rows
          /\ nextProjectId' = r.nextId
          /\ IF r.threw
             THEN Finish(t, "threw")
             ELSE /\ tasks' = [tasks EXCEPT
                                  ![t].project = r.row,
                                  ![t].channel = c,
                                  ![t].pc = IF r.row.channel_id # c
                                            THEN "dupDelete"
                                            ELSE "threadSection"]
                  /\ UNCHANGED syncLocks
    /\ UNCHANGED <<threads, nextThreadRowId, lastCall, dthreads, nextDThread,
                   threadEvents, arrivals, linked, uvars, cvars, lvars, ovars, wvars, xvars>>

\* The buffer cap of the model (MAX_BUFFERED_SESSION_LINES is 2000).
MaxBuffered == 2
MaxLines == 3

\* The mutant of the buffer that keeps only the newest lines handed over.
BufferedKeepNewest(queued, lines) == lines

\* The mutant of the buffer that drops the newest lines at the cap.
BufferedDropNewest(queued, lines) ==
    LET all == queued \o lines
    IN IF Len(all) > MaxBuffered THEN SubSeq(all, 1, MaxBuffered) ELSE all

\* bufferSessionLines, lines 413-419: append, then splice the oldest lines
\* off down to the cap.
Buffered(queued, lines) ==
    LET all == queued \o lines
        overflow == Len(all) - MaxBuffered
    IN IF overflow > 0 THEN SubSeq(all, overflow + 1, Len(all)) ELSE all

\* The lines of a buffer's content that lie beyond the cap, oldest first.
PastCap(all) ==
    IF Len(all) > MaxBuffered
    THEN SeqToSet(SubSeq(all, 1, Len(all) - MaxBuffered))
    ELSE {}

\* handleSessionUpdate, lines 323-339, up to the fetch of the chat thread:
\* without a row for the session the lines are buffered, with one the call
\* waits for guild.channels.fetch; task is the new-session task awaiting the
\* call, or 0.
UpdateArrives(s, lines, task, buffer) ==
    LET row == ThreadGetByCodexThreadId(threads, s)
        kept == Buffered(buffer[s], lines)
    IN IF row = NoRow
       THEN [buffer |-> [buffer EXCEPT ![s] = kept],
             calls |-> {},
             went |-> lines,
             out |-> PastCap(buffer[s] \o lines)]
       ELSE [buffer |-> buffer,
             calls |-> {[session |-> s, thread |-> row.discord_thread_id,
                         lines |-> lines, pc |-> "fetch", task |-> task]},
             went |-> <<>>,
             out |-> {}]

\* The awaits of _handleNewSessionImpl outside its two creations (client.ts
\* 203-290): the lost-race branches, which delete the channel or thread just
\* created and go on with the one of the row that won, and the flush of the
\* buffered lines at the end (flushBufferedSessionLines, 428-441), which hands
\* the whole buffer to one handleSessionUpdate call and awaits it.
NSAwait(t) ==
    /\ tasks[t].pc \in {"dupDelete", "dupFetch", "dupThreadDelete", "finishing"}
    /\ LET s == tasks[t].session
           cleared == [pendingSessionLines EXCEPT ![s] = <<>>]
           u == UpdateArrives(s, pendingSessionLines[s], t, cleared)
       IN IF tasks[t].pc = "dupDelete"
          THEN /\ channels' = {c \in channels : c.id # tasks[t].channel}
               /\ tasks' = [tasks EXCEPT ![t].pc = "dupFetch"]
               /\ UNCHANGED <<syncLocks, dthreads, lvars>>
          ELSE IF tasks[t].pc = "dupFetch"
          THEN /\ IF ChannelExists(tasks[t].project.channel_id)
                  THEN /\ tasks' = [tasks EXCEPT
                                       ![t].channel = tasks[t].project.channel_id,
                                       ![t].pc = "threadSection"]
                       /\ UNCHANGED syncLocks
                  ELSE Finish(t, "aborted")
               /\ UNCHANGED <<channels, dthreads, lvars>>
          ELSE IF tasks[t].pc = "dupThreadDelete"
          THEN /\ dthreads' = {d \in dthreads : d.id # tasks[t].dthread}
               /\ Finish(t, "ok")
               /\ UNCHANGED <<channels, lvars>>
          ELSE IF pendingSessionLines[s] = <<>>
          THEN /\ Finish(t, "ok")
               /\ UNCHANGED <<channels, dthreads, lvars>>
          ELSE /\ pendingSessionLines' = u.buffer
               /\ calls' = calls \cup u.calls
               /\ everBuffered' = [everBuffered EXCEPT ![s] = @ \o u.went]
               /\ spliced' = spliced \cup u.out
               /\ IF u.calls = {}
                  THEN Finish(t, "ok")
                  ELSE /\ tasks' = [tasks EXCEPT ![t].pc = "flushing"]
                       /\ UNCHANGED syncLocks
               /\ UNCHANGED <<channels, dthreads, posted, emitted>>
    /\ UNCHANGED <<nextChannel, nextDThread, threadEvents, arrivals, linked,
                   svars, uvars, cvars, ovars, wvars, xvars>>

\* The tailer hands handleSessionUpdate the next line of a session it has
\* announced (session-watcher.ts 143-147, 233).
SessionUpdate(s) ==
    /\ emitted < MaxLines
    /\ \E t \in Tasks : tasks[t].pc # "idle" /\ tasks[t].session = s
    /\ emitted' = emitted + 1
    /\ LET u == UpdateArrives(s, <<emitted + 1>>, 0, pendingSessionLines)
       IN /\ pendingSessionLines' = u.buffer
          /\ calls' = calls \cup u.calls
          /\ everBuffered' = [everBuffered EXCEPT ![s] = @ \o u.went]
          /\ spliced' = spliced \cup u.out
    /\ UNCHANGED <<posted, svars, dvars, kvars, uvars, cvars, ovars, wvars, xvars>>

\* An await of a handleSessionUpdate call returns (lines 335-398): the fetch
\* of the chat thread, which ends the call if the thread is gone, or the send
\* of one line; the task awaiting a finished flush goes on to its end.
UpdateStep(c) ==
    /\ c \in calls
    /\ LET gone == c.pc = "fetch" /\ ~\E d \in dthreads : d.id = c.thread
           rest == IF c.pc = "fetch" THEN c.lines ELSE Tail(c.lines)
           over == gone \/ rest = <<>>
       IN /\ posted' = IF c.pc = "send"
                       THEN Append(posted, [thread |-> c.thread,
                                            session |-> c.session,
                                            line |-> Head(c.lines)])
                       ELSE posted
          /\ calls' = IF over THEN calls \ {c}
                      ELSE (calls \ {c}) \cup
                           {[c EXCEPT !.pc = "send", !.lines = rest]}
          /\ IF over /\ c.task # 0
             THEN Finish(c.task, "ok")
             ELSE UNCHANGED <<tasks, syncLocks>>
    /\ UNCHANGED <<pendingSessionLines, emitted, everBuffered, spliced, arrivals,
                   linked, svars, dvars, uvars, cvars, ovars, wvars, xvars>>

\* Lines 228-249, from the channel at hand to the chat platform making the
\* thread: the project embed returns (its result is not read), the session is
\* looked up, and if it has no row threads.create reaches the platform, so the
\* thread exists and its ThreadCreate event is on its way.
NSThreadCreated(t) ==
    /\ tasks[t].pc = "threadSection"
    /\ IF ThreadGetByCodexThreadId(threads, tasks[t].session) # NoRow
       THEN /\ tasks' = [tasks EXCEPT ![t].pc = "finishing"]
            /\ UNCHANGED <<syncLocks, dthreads, nextDThread, threadEvents>>
       ELSE IF ChannelExists(tasks[t].channel)
       THEN /\ dthreads' = dthreads \cup
                   {[id |-> nextDThread, parent |-> tasks[t].channel,
                     forSession |-> tasks[t].session]}
            /\ nextDThread' = nextDThread + 1
            /\ threadEvents' = Append(threadEvents,
                   [id |-> nextDThread, parent |-> tasks[t].channel])
            /\ tasks' = [tasks EXCEPT ![t].dthread = nextDThread,
                                      ![t].pc = "threadCreated"]
            /\ UNCHANGED syncLocks
       ELSE /\ Finish(t, "threadFailed")
            /\ UNCHANGED <<dthreads, nextDThread, threadEvents>>
    /\ UNCHANGED <<channels, nextChannel, arrivals, linked, svars, uvars, cvars, lvars, ovars, wvars, xvars>>

\* threads.create returns (lines 251-269): delete the thread if the session got
\* mapped to another one meanwhile, else link or insert the row.
NSAfterThreadCreate(t) ==
    /\ tasks[t].pc = "threadCreated"
    /\ LET d == tasks[t].dthread
           s == tasks[t].session
           mappedThread == ThreadGetByCodexThreadId(threads, s)
           alreadyMapped == ThreadGetByDiscordThreadId(threads, d)
           upd == ThreadRepoUpdateCodexThreadId(threads, d, s)
           ins == ThreadRepoCreate(threads, projects, nextThreadRowId, d,
                                   tasks[t].project.id, s)
       IN IF mappedThread # NoRow /\ mappedThread.discord_thread_id # d
          THEN /\ tasks' = [tasks EXCEPT ![t].pc = "dupThreadDelete"]
               /\ UNCHANGED <<syncLocks, threads, nextThreadRowId, linked>>
          ELSE IF alreadyMapped # NoRow
          THEN IF alreadyMapped.codex_thread_id = Null
               THEN /\ threads' = upd.rows
                    /\ linked' = IF upd.threw THEN linked ELSE linked \cup {d}
                    /\ IF upd.threw
                       THEN Finish(t, "threadFailed")
                       ELSE /\ tasks' = [tasks EXCEPT ![t].pc = "finishing"]
                            /\ UNCHANGED syncLocks
                    /\ UNCHANGED nextThreadRowId
               ELSE /\ tasks' = [tasks EXCEPT ![t].pc = "finishing"]
                    /\ UNCHANGED <<syncLocks, threads, nextThreadRowId, linked>>
          ELSE /\ threads' = ins.rows
               /\ nextThreadRowId' = ins.nextId
               /\ IF ins.threw
                  THEN Finish(t, "threadFailed")
                  ELSE /\ tasks' = [tasks EXCEPT ![t].pc = "finishing"]
                       /\ UNCHANGED syncLocks
               /\ UNCHANGED linked
    /\ UNCHANGED <<projects, nextProjectId, lastCall, arrivals, dvars, uvars, cvars, lvars, ovars, wvars, xvars>>

(***************************************************************************)
(* The chat platform's events: thread-create notifications, threads made   *)
(* by users, user messages and the interactive turn they start.            *)
(***************************************************************************)
\* handleThreadCreate (lines 501-512), for the oldest event of the gateway's
\* ordered stream: map a thread of a project channel that has no row yet,
\* without a session id.
HandleThreadCreate ==
    /\ threadEvents # <<>>
    /\ threadEvents' = Tail(threadEvents)
    /\ LET e == Head(threadEvents)
           project == ProjectGetByChannelId(projects, e.parent)
           r == ThreadRepoCreate(threads, projects, nextThreadRowId, e.id,
                                 project.id, Null)
       IN IF project = NoRow \/ ThreadGetByDiscordThreadId(threads, e.id) # NoRow
          THEN UNCHANGED <<threads, nextThreadRowId>>
          ELSE /\ threads' = r.rows
               /\ nextThreadRowId' = r.nextId
    /\ UNCHANGED <<projects, nextProjectId, lastCall, channels, dthreads,
                   nextChannel, nextDThread, kvars, uvars, cvars, lvars, ovars, wvars, xvars>>

\* A user creates a chat thread in a channel.
UserCreatesThread(c) ==
    /\ userThreads < MaxUserThreads
    /\ c \in channels
    /\ userThreads' = userThreads + 1
    /\ dthreads' = dthreads \cup
           {[id |-> nextDThread, parent |-> c.id, forSession |-> Null]}
    /\ nextDThread' = nextDThread + 1
    /\ threadEvents' = Append(threadEvents, [id |-> nextDThread, parent |-> c.id])
    /\ UNCHANGED <<channels, nextChannel, messages, turn, svars, kvars, cvars, lvars, ovars, wvars, xvars>>

\* handleMessage (lines 471-497) up to handleUserMessage's first await: the
\* thread is auto-registered if it has no row, and the turn starts with the
\* row as read now (message-sync.ts 48-66).  The gateway delivers a thread's
\* messages after its ThreadCreate event.  The agent resumes the row's
\* session, or starts session s, whose file no watcher has seen yet.
HandleMessage(d, s) ==
    /\ d \in dthreads
    /\ \A i \in 1..Len(threadEvents) : threadEvents[i].id # d.id
    /\ turn.pc = "idle"
    /\ messages < MaxMessages
    /\ ProjectGetByChannelId(projects, d.parent) # NoRow
    /\ LET existing == ThreadGetByDiscordThreadId(threads, d.id)
       IN IF existing # NoRow /\ existing.codex_thread_id # Null
          THEN s = existing.codex_thread_id
          ELSE /\ Cwd(s) = ProjectGetByChannelId(projects, d.parent).project_path
               /\ \A t \in Tasks : tasks[t].session # s
               /\ ThreadGetByCodexThreadId(threads, s) = NoRow
    /\ messages' = messages + 1
    /\ LET project == ProjectGetByChannelId(projects, d.parent)
           existing == ThreadGetByDiscordThreadId(threads, d.id)
           r == ThreadRepoCreate(threads, projects, nextThreadRowId, d.id,
                                 project.id, Null)
           threadRow == IF existing # NoRow THEN existing ELSE r.row
       IN /\ threads' = IF existing # NoRow THEN threads ELSE r.rows
          /\ nextThreadRowId' = IF existing # NoRow THEN nextThreadRowId
                                ELSE r.nextId
          /\ turn' = [pc |-> "streaming", thread |-> d.id,
                      codex_thread_id |-> threadRow.codex_thread_id,
                      session |-> s]
    /\ UNCHANGED <<projects, nextProjectId, lastCall, userThreads, dvars,
                   kvars, cvars, lvars, ovars, wvars, xvars>>

\* streamCodexResponse (message-sync.ts 113-126): thread.started announces the
\* session id, recorded if the row read at the start of the turn had none; a
\* failed update ends the turn in the catch block of handleUserMessage.
ThreadStarted ==
    /\ turn.pc = "streaming"
    /\ LET upd == ThreadRepoUpdateCodexThreadId(threads, turn.thread, turn.session)
       IN IF turn.codex_thread_id = Null
          THEN /\ threads' = upd.rows
               /\ turn' = [pc |-> "idle"]
          ELSE /\ UNCHANGED threads
               /\ turn' = [pc |-> "idle"]
    /\ UNCHANGED <<projects, nextProjectId, nextThreadRowId, lastCall,
                   userThreads, messages, dvars, kvars, cvars, lvars, ovars, wvars, xvars>>

\* The steps of the new-session tasks under way.
NewSessionSteps ==
    \/ \E t \in Tasks : NSStart(t)
    \/ \E t \in Tasks : NSFetched(t)
    \/ \E t \in Tasks : NSChannelCreated(t)
    \/ \E t \in Tasks : NSAwait(t)
    \/ \E t \in Tasks : NSThreadCreated(t)
    \/ \E t \in Tasks : NSAfterThreadCreate(t)
    \/ HandleThreadCreate

InitSync == InitFresh /\ StoreEmpty /\ ChatEmpty /\ BotIdle /\ NoProcesses /\ StoreOpened

\* New-session handling alone, for the sessions of every project.
NextChain ==
    \/ \E t \in Tasks, s \in Sessions : NSTrigger(t, s)
    \/ NewSessionSteps

SpecChain == InitSync /\ [][NextChain]_vars

\* The project whose chat side is explored, and its sessions.
ChatPath == "/a"
ChatSessions == {s \in Sessions : Cwd(s) = ChatPath}

\* The users of the project's channel and the interactive turn.
ChatSteps ==
    \/ \E c \in channels : UserCreatesThread(c)
    \/ \E d \in dthreads, s \in ChatSessions : HandleMessage(d, s)
    \/ ThreadStarted

\* New-session handling and the users of the project's channel.
NextSync ==
    \/ \E t \in Tasks, s \in ChatSessions : NSTrigger(t, s)
    \/ NewSessionSteps
    \/ ChatSteps

SpecSync == InitSync /\ [][NextSync]_vars

(***************************************************************************)
(* The slash commands /setup and /sync-projects.  Neither takes the        *)
(* per-path chain of handleNewSession.                                     *)
(***************************************************************************)
\* scanAllSessions: the session files on disk, grouped by project path.
ScannedPaths == <<ChatPath>>
ScannedSessions(p) == <<"S1", "S2">>

\* handleSetup, lines 650-682: an unregistered path gets a channel; the
\* command then waits for guild.channels.create to return.
SetupStart(p) ==
    /\ setup.pc = "idle"
    /\ setup.runs < MaxSetups
    /\ IF FindProjectByPath(projects, p) # NoRow
       THEN /\ setup' = [NoSetup EXCEPT !.runs = setup.runs + 1,
                                        !.outcome = "registered"]
            /\ UNCHANGED <<channels, nextChannel>>
       ELSE /\ channels' = channels \cup {[id |-> nextChannel, topic |-> p]}
            /\ nextChannel' = nextChannel + 1
            /\ setup' = [pc |-> "created", path |-> p, channel |-> nextChannel,
                         runs |-> setup.runs + 1, outcome |-> "none"]
    /\ UNCHANGED <<dthreads, nextDThread, threadEvents, sync, svars, kvars,
                   uvars, lvars, ovars, wvars, xvars>>

\* handleSetup, lines 684-722: insert the row; a row of another channel means
\* the race was lost and the own channel goes; a throw is reported to the user.
SetupChannelCreated ==
    /\ setup.pc = "created"
    /\ LET r == ProjectRepoCreate(projects, nextProjectId, setup.channel, setup.path)
       IN /\ projects' = r.rows
          /\ nextProjectId' = r.nextId
          /\ channels' = IF ~r.threw /\ r.row.channel_id # setup.channel
                         THEN {c \in channels : c.id # setup.channel}
                         ELSE channels
          /\ setup' = [NoSetup EXCEPT !.runs = setup.runs,
                          !.outcome = IF r.threw THEN "threw"
                                      ELSE IF r.row.channel_id # setup.channel
                                      THEN "registered" ELSE "ok"]
    /\ UNCHANGED <<threads, nextThreadRowId, lastCall, dthreads, nextChannel,
                   nextDThread, threadEvents, sync, kvars, uvars, lvars, ovars, wvars, xvars>>

\* handleSyncProjects, lines 846-864: scan and start the loop over projects.
SyncProjectsStart ==
    /\ sync.pc = "idle"
    /\ sync.runs < MaxSyncs
    /\ sync' = [NoSync EXCEPT !.pc = "project", !.paths = ScannedPaths,
                              !.runs = sync.runs + 1]
    /\ UNCHANGED <<setup, svars, dvars, kvars, uvars, lvars, ovars, wvars, xvars>>

\* Lines 864-888, one turn of the loop over projects: a registered path is
\* skipped, another gets a channel; after the last one the command replies.
SyncNextProject ==
    /\ sync.pc = "project"
    /\ IF sync.paths = <<>>
       THEN /\ sync' = [NoSync EXCEPT !.runs = sync.runs, !.outcome = "ok"]
            /\ UNCHANGED <<channels, nextChannel>>
       ELSE IF FindProjectByPath(projects, Head(sync.paths)) # NoRow
       THEN /\ sync' = [sync EXCEPT !.paths = Tail(sync.paths)]
            /\ UNCHANGED <<channels, nextChannel>>
       ELSE /\ channels' = channels \cup
                   {[id |-> nextChannel, topic |-> Head(sync.paths)]}
            /\ nextChannel' = nextChannel + 1
            /\ sync' = [sync EXCEPT !.pc = "channelCreated",
                                    !.path = Head(sync.paths),
                                    !.paths = Tail(sync.paths),
                                    !.channel = nextChannel]
    /\ UNCHANGED <<dthreads, nextDThread, threadEvents, setup, svars, kvars,
                   uvars, lvars, ovars, wvars, xvars>>

\* Lines 890-918: insert the row; a throw leaves the loop for the catch block
\* of the command (981-984).
SyncChannelCreated ==
    /\ sync.pc = "channelCreated"
    /\ LET r == ProjectRepoCreate(projects, nextProjectId, sync.channel, sync.path)
       IN /\ projects' = r.rows
          /\ nextProjectId' = r.nextId
          /\ channels' = IF ~r.threw /\ r.row.channel_id # sync.channel
                         THEN {c \in channels : c.id # sync.channel}
                         ELSE channels
          /\ sync' = IF r.threw
                     THEN [NoSync EXCEPT !.runs = sync.runs, !.outcome = "threw"]
                     ELSE IF r.row.channel_id # sync.channel
                     THEN [sync EXCEPT !.pc = "project"]
                     ELSE [sync EXCEPT !.pc = "session", !.project = r.row,
                                       !.sessions = ScannedSessions(sync.path)]
    /\ UNCHANGED <<threads, nextThreadRowId, lastCall, dthreads, nextChannel,
                   nextDThread, threadEvents, setup, kvars, uvars, lvars, ovars, wvars, xvars>>

\* Lines 919-932, one turn of the loop over the project's sessions: a mapped
\* session is skipped, another gets a chat thread.
SyncNextSession ==
    /\ sync.pc = "session"
    /\ IF sync.sessions = <<>>
       THEN /\ sync' = [sync EXCEPT !.pc = "project"]
            /\ UNCHANGED <<dthreads, nextDThread, threadEvents>>
       ELSE IF \/ ThreadGetByCodexThreadId(threads, Head(sync.sessions)) # NoRow
               \/ ~ChannelExists(sync.channel)
       THEN /\ sync' = [sync EXCEPT !.sessions = Tail(sync.sessions)]
            /\ UNCHANGED <<dthreads, nextDThread, threadEvents>>
       ELSE /\ dthreads' = dthreads \cup
                   {[id |-> nextDThread, parent |-> sync.channel,
                     forSession |-> Head(sync.sessions)]}
            /\ nextDThread' = nextDThread + 1
            /\ threadEvents' = Append(threadEvents,
                   [id |-> nextDThread, parent |-> sync.channel])
            /\ sync' = [sync EXCEPT !.pc = "threadCreated",
                                    !.dthread = nextDThread]
    /\ UNCHANGED <<channels, nextChannel, setup, svars, kvars, uvars, lvars, ovars, wvars, xvars>>

\* Lines 934-964: insert the thread row; a throw is caught inside the loop and
\* the thread stays, a row of another thread means the own thread goes.
SyncThreadCreated ==
    /\ sync.pc = "threadCreated"
    /\ LET r == ThreadRepoCreate(threads, projects, nextThreadRowId,
                                 sync.dthread, sync.project.id,
                                 Head(sync.sessions))
       IN /\ threads' = r.rows
          /\ nextThreadRowId' = r.nextId
          /\ dthreads' = IF ~r.threw /\ r.row.discord_thread_id # sync.dthread
                         THEN {d \in dthreads : d.id # sync.dthread}
                         ELSE dthreads
    /\ sync' = [sync EXCEPT !.pc = "session", !.sessions = Tail(sync.sessions),
                            !.dthread = 0]
    /\ UNCHANGED <<projects, nextProjectId, lastCall, channels, nextChannel,
                   nextDThread, threadEvents, setup, kvars, uvars, lvars, ovars, wvars, xvars>>

\* New sessions seen while a command runs.
MaxRacingTriggers == 1

Next ==
    \/ \E t \in Tasks, s \in ChatSessions :
           arrivals < MaxRacingTriggers /\ NSTrigger(t, s)
    \/ NewSessionSteps
    \/ ChatSteps
    \/ SetupStart(ChatPath)
    \/ SetupChannelCreated
    \/ SyncProjectsStart
    \/ SyncNextProject
    \/ SyncChannelCreated
    \/ SyncNextSession
    \/ SyncThreadCreated

Init == InitSync

Spec == Init /\ [][Next]_vars

(***************************************************************************)
(* Claims about the tailer.                                                *)
(***************************************************************************)
NoDuplicates(s) == \A i, j \in 1..Len(s) : i # j => s[i] # s[j]

\* The file was first seen by processFile and has never been truncated.
AppendOnlyWatched ==
    truncs = 0 /\ markedAt = NoOffset /\ fileOffsets # NoOffset

C3_TruncateReplaysFromZero ==
    (truncs > 0 /\ synced /\ fileOffsets # NoOffset) =>
        /\ \A l \in SeqToSet(CompleteLines(file)) : l \in SeqToSet(delivered)
        /\ \A l \in SeqToSet(delivered) : l \in everLines

\* C1 (safety part): whatever the appends, truncations and notifications, every
\* line handed to the update handler is a complete logical line the file held,
\* never one assembled from a stale byte range, and lines arrive in file order.
C1_OnlyRealLinesInOrder ==
    markedAt = NoOffset =>
        /\ \A l \in SeqToSet(delivered) : l \in everLines
        /\ \A i, j \in 1..Len(delivered) :
               i < j => delivered[i][1] < delivered[j][1]

(***************************************************************************)
(* The repositories called directly, with arguments from small sets.       *)
(***************************************************************************)
RepoChannelIds == {1, 2}
RepoThreadIds == {1, 2}

InitRepo == InitFresh /\ StoreEmpty /\ ChatEmpty /\ BotIdle /\ NoProcesses /\ StoreOpened

RepoProjectCreate ==
    /\ nextProjectId <= MaxRowId
    /\ \E channelId \in RepoChannelIds, projectPath \in Paths :
        LET r == ProjectRepoCreate(projects, nextProjectId, channelId, projectPath)
        IN /\ projects' = r.rows
           /\ nextProjectId' = r.nextId
           /\ lastCall' = [op |-> "ProjectRepo.create",
                           channelId |-> channelId,
                           projectPath |-> projectPath,
                           hadPath |-> \E q \in projects : q.project_path = projectPath,
                           threw |-> r.threw,
                           row |-> r.row]
    /\ UNCHANGED <<threads, nextThreadRowId>>
    /\ UNCHANGED <<wvars, xvars, dvars, kvars, uvars, cvars, lvars, ovars>>

RepoThreadCreate ==
    /\ nextThreadRowId <= MaxRowId
    /\ \E discordThreadId \in RepoThreadIds, p \in projects,
          codexThreadId \in Sessions \cup {Null} :
        LET r == ThreadRepoCreate(threads, projects, nextThreadRowId,
                                  discordThreadId, p.id, codexThreadId)
        IN /\ threads' = r.rows
           /\ nextThreadRowId' = r.nextId
           /\ lastCall' = [op |-> "ThreadRepo.create",
                           discordThreadId |-> discordThreadId,
                           codexThreadId |-> codexThreadId,
                           hadSame |-> \E q \in threads :
                                          /\ q.discord_thread_id = discordThreadId
                                          /\ q.codex_thread_id = codexThreadId,
                           threw |-> r.threw,
                           row |-> r.row]
    /\ UNCHANGED <<projects, nextProjectId>>
    /\ UNCHANGED <<wvars, xvars, dvars, kvars, uvars, cvars, lvars, ovars>>

RepoUpdateCodexThreadId ==
    /\ \E discordThreadId \in RepoThreadIds, codexThreadId \in Sessions :
        LET r == ThreadRepoUpdateCodexThreadId(threads, discordThreadId, codexThreadId)
        IN /\ threads' = r.rows
           /\ lastCall' = [op |-> "ThreadRepo.updateCodexThreadId",
                           discordThreadId |-> discordThreadId,
                           codexThreadId |-> codexThreadId,
                           threw |-> r.threw]
    /\ UNCHANGED <<projects, nextProjectId, nextThreadRowId>>
    /\ UNCHANGED <<wvars, xvars, dvars, kvars, uvars, cvars, lvars, ovars>>

RepoProjectDelete ==
    /\ \E p \in projects :
        /\ threads' = ThreadsAfterProjectDelete(threads, p.id)
        /\ projects' = ProjectsAfterProjectDelete(projects, p.id)
        /\ lastCall' = [op |-> "ProjectRepo.delete", id |-> p.id, threw |-> FALSE]
    /\ UNCHANGED <<nextProjectId, nextThreadRowId>>
    /\ UNCHANGED <<wvars, xvars, dvars, kvars, uvars, cvars, lvars, ovars>>

NextRepo ==
    \/ RepoProjectCreate
    \/ RepoThreadCreate
    \/ RepoUpdateCodexThreadId
    \/ RepoProjectDelete

SpecRepo == InitRepo /\ [][NextRepo]_vars

(***************************************************************************)
(* Claims about the repositories.                                          *)
(***************************************************************************)
\* C8: ProjectRepo.create for a project path that already has a row does not
\* fail: it returns the existing row of that path and the store holds exactly
\* one row for the path.
C8_CreateOnExistingPathReturnsRow ==
    (lastCall.op = "ProjectRepo.create" /\ lastCall.hadPath) =>
        /\ ~lastCall.threw
        /\ lastCall.row \in projects
        /\ lastCall.row.project_path = lastCall.projectPath
        /\ Cardinality({q \in projects : q.project_path = lastCall.projectPath}) = 1

\* C9: ThreadRepo.create is idempotent: a second create("T1", 1, "name", "S1")
\* does not fail and returns the row with that chat-thread id and that
\* external-session id, and one such row exists.
C9_ThreadCreateIdempotent ==
    (lastCall.op = "ThreadRepo.create" /\ lastCall.hadSame) =>
        /\ ~lastCall.threw
        /\ lastCall.row \in threads
        /\ lastCall.row.codex_thread_id = lastCall.codexThreadId
        /\ lastCall.row.discord_thread_id = lastCall.discordThreadId
        /\ Cardinality({q \in threads :
               q.codex_thread_id = lastCall.codexThreadId}) = 1

(***************************************************************************)
(* Claims about new-session handling.                                      *)
(***************************************************************************)
Running(t) == tasks[t].pc \notin {"idle", "queued", "done"}
Triggered(t) == tasks[t].pc # "idle"
ProjectRowsOf(p) == {r \in projects : r.project_path = p}
ChannelsOf(p) == {c \in channels : c.topic = p}
ThreadRowsOf(s) == {r \in threads : r.codex_thread_id = s}

\* C4: per project path at most one new-session task executes at a time, and a
\* task that has started finds every earlier trigger of its path finished.
C4_OneTaskPerKeyFIFO ==
    \A t, u \in Tasks :
        (/\ Triggered(t) /\ Triggered(u)
         /\ TaskPath(t) = TaskPath(u)
         /\ tasks[t].ticket < tasks[u].ticket
         /\ tasks[u].pc # "queued")
        => tasks[t].pc = "done"

\* A trigger that arrived while another of its path was in flight is running
\* after that one finished, with a third one of the path waiting behind it.
C4_Witness ==
    \E t, u, v \in Tasks :
        /\ tasks[t].pc = "done"
        /\ Running(u) /\ tasks[u].prev = t
        /\ tasks[v].pc = "queued" /\ tasks[v].prev = u

\* C5: once two new-session triggers of one project path have finished, the
\* path has exactly one Project row and exactly one channel.
C5_OneProjectOneChannel ==
    \A t, u \in Tasks :
        (/\ t # u
         /\ tasks[t].pc = "done" /\ tasks[u].pc = "done"
         /\ TaskPath(t) = TaskPath(u))
        => /\ Cardinality(ProjectRowsOf(TaskPath(t))) = 1
           /\ Cardinality(ChannelsOf(TaskPath(t))) = 1

\* Two triggers of one path, the second arrived while the first was in
\* flight, have both finished.
C5_Witness ==
    \E t, u \in Tasks :
        /\ tasks[t].pc = "done" /\ tasks[u].pc = "done"
        /\ tasks[u].prev = t
        /\ tasks[u].outcome = "ok"

\* C6: once two new-session triggers of one session have finished, one of
\* them successfully, the session has exactly one Thread row, and every chat
\* thread made for the session that is still there is the one of that row.
C6_OneThreadPerSession ==
    \A t, u \in Tasks :
        (/\ t # u
         /\ tasks[t].pc = "done" /\ tasks[u].pc = "done"
         /\ tasks[t].session = tasks[u].session
         /\ "ok" \in {tasks[t].outcome, tasks[u].outcome})
        => /\ Cardinality(ThreadRowsOf(tasks[t].session)) = 1
           /\ \A d \in dthreads :
                 d.forSession = tasks[t].session
                 => \E r \in ThreadRowsOf(tasks[t].session) :
                        r.discord_thread_id = d.id

\* C7: no two Thread rows share a session id or a chat-thread id, and a chat
\* thread whose row was made by a thread-create notification and then linked
\* by new-session handling has that one row.
C7_ThreadRowsUnique ==
    /\ \A r, q \in threads :
          (r.codex_thread_id # Null /\ r.codex_thread_id = q.codex_thread_id)
          => r = q
    /\ \A r, q \in threads : r.discord_thread_id = q.discord_thread_id => r = q
    /\ \A d \in linked :
          /\ Cardinality({r \in threads : r.discord_thread_id = d}) = 1
          /\ \A r \in threads : r.discord_thread_id = d => r.codex_thread_id # Null

\* New-session handling linked the row that a thread-create notification had
\* made, next to the row of another chat thread.
C7_Witness ==
    \E d \in linked : \E r, q \in threads :
        /\ r.discord_thread_id = d
        /\ r.codex_thread_id # Null
        /\ q.discord_thread_id # d

\* C10: when every creator of a path has finished, the path has one Project
\* row and one channel, and no creator ended in an error.
C10_RaceLeavesOneChannel ==
    (/\ \A t \in Tasks : tasks[t].pc \in {"idle", "done"}
     /\ setup.pc = "idle"
     /\ sync.pc = "idle")
    => /\ \A p \in Paths : Cardinality(ProjectRowsOf(p)) <= 1
       /\ \A p \in Paths : Cardinality(ChannelsOf(p)) <= 1
       /\ \A t \in Tasks : tasks[t].outcome # "threw"
       /\ setup.outcome # "threw"
       /\ sync.outcome # "threw"

(***************************************************************************)
(* Claims about the live replay.                                           *)
(***************************************************************************)
\* New-session handling with the tailer handing over lines meanwhile.
NextBuffer ==
    \/ \E t \in Tasks, s \in ChatSessions : NSTrigger(t, s)
    \/ NewSessionSteps
    \/ \E s \in ChatSessions : SessionUpdate(s)
    \/ \E c \in calls : UpdateStep(c)

SpecBuffer == InitSync /\ [][NextBuffer]_vars

\* The buffered lines of s that the cap did not push out, in buffer order.
KeptBuffered(s) == SelectSeq(everBuffered[s], LAMBDA l : l \notin spliced)

\* The buffered lines of s the chat platform received, in the order received.
PostedBuffered(s) ==
    LET got == SelectSeq(posted, LAMBDA m : /\ m.session = s
                                            /\ m.line \in SeqToSet(KeptBuffered(s)))
    IN [i \in 1..Len(got) |-> got[i].line]

FlushedFor(s) ==
    /\ \E t \in Tasks : /\ tasks[t].session = s
                        /\ tasks[t].pc = "done"
                        /\ tasks[t].outcome = "ok"
    /\ \A c \in calls : c.session # s

MaxTurnMessages == 3
Prompts == {"p1"}
Answers == {"a1"}

\* MessageSync.WATCHER_ECHO_TTL_MS, in ticks of the model's clock.
WATCHER_ECHO_TTL == 1

\* The store and the chat server left by an earlier run: one project with its
\* channel, thread 1 mapped to session S1, thread 2 made by a user since.
StoreMapped ==
    /\ projects = {[id |-> 1, channel_id |-> 1, project_path |-> ChatPath]}
    /\ threads = {[id |-> 1, discord_thread_id |-> 1, codex_thread_id |-> "S1",
                   project_id |-> 1]}
    /\ nextProjectId = 2
    /\ nextThreadRowId = 2
    /\ lastCall = NoCall

ChatMapped ==
    /\ channels = {[id |-> 1, topic |-> ChatPath]}
    /\ dthreads = {[id |-> d, parent |-> 1, forSession |-> Null] : d \in TurnThreads}
    /\ nextChannel = 2
    /\ nextDThread = 3
    /\ threadEvents = <<>>

\* isProcessing / processing.has.
IsProcessingNever(proc, d) == FALSE

IsProcessing(proc, d) == d \in proc

\* The mutant of the pruning that does not look at the turns in flight.
PruneExpiredIgnoringTurns(echoes, proc, t) ==
    [d \in DOMAIN echoes |->
        IF echoes[d].present /\ echoes[d].expiresAt <= t
        THEN NoEntry ELSE echoes[d]]

\* pruneExpiredWatcherEchoes: expired entries go, except those of threads
\* with a turn in flight.
PruneExpiredWatcherEchoes(echoes, proc, t) ==
    [d \in DOMAIN echoes |->
        IF echoes[d].present /\ echoes[d].expiresAt <= t /\ d \notin proc
        THEN NoEntry ELSE echoes[d]]

\* startWatcherEchoSuppression: a fresh entry holding the prompt.
StartWatcherEchoSuppression(echoes, d, prompt, t) ==
    [echoes EXCEPT ![d] = [present |-> TRUE, expiresAt |-> t + WATCHER_ECHO_TTL,
                           user |-> {prompt}, assistant |-> {}]]

\* rememberWatcherAssistantEcho: the answer joins the entry, if there is one.
RememberWatcherAssistantEcho(echoes, d, text, t) ==
    IF echoes[d].present
    THEN [echoes EXCEPT ![d].assistant = @ \cup {text},
                        ![d].expiresAt = t + WATCHER_ECHO_TTL]
    ELSE echoes

\* extendWatcherEchoSuppression.
ExtendWatcherEchoSuppression(echoes, d, t) ==
    IF echoes[d].present
    THEN [echoes EXCEPT ![d].expiresAt = t + WATCHER_ECHO_TTL]
    ELSE echoes

\* shouldSuppressSessionEcho: after pruning, is the text one the thread's
\* entry holds for the role?
ShouldSuppressSessionEcho(echoes, proc, t, d, role, text) ==
    LET entry == PruneExpiredWatcherEchoes(echoes, proc, t)[d]
    IN /\ entry.present
       /\ text \in (IF role = "user" THEN entry.user ELSE entry.assistant)

\* The finally block of handleUserMessage: processing.delete.
ProcessingKept(proc, d) == proc

ProcessingAfterTurn(proc, d) == proc \ {d}

\* handleMessage and handleUserMessage up to the await of the agent's turn
\* (client.ts 471-497, message-sync.ts 34-84): all of it runs without a
\* suspension, except the busy reply.
TurnMessage(d, p) ==
    /\ userMessages < MaxTurnMessages
    /\ d \in dthreads
    /\ ProjectGetByChannelId(projects, d.parent) # NoRow
    /\ userMessages' = userMessages + 1
    /\ LET m == userMessages + 1
           project == ProjectGetByChannelId(projects, d.parent)
           existing == ThreadGetByDiscordThreadId(threads, d.id)
           r == ThreadRepoCreate(threads, projects, nextThreadRowId, d.id,
                                 project.id, Null)
           threadRow == IF existing # NoRow THEN existing ELSE r.row
           echoes == PruneExpiredWatcherEchoes(recentWatcherEchoes, processing, now)
       IN /\ threads' = IF existing # NoRow THEN threads ELSE r.rows
          /\ nextThreadRowId' = IF existing # NoRow THEN nextThreadRowId
                                ELSE r.nextId
          /\ IF IsProcessing(processing, d.id)
             THEN /\ chat' = chat \cup {[thread |-> d.id, kind |-> "busy",
                                           role |-> "bot", text |-> p,
                                           message |-> m, known |-> FALSE]}
                  /\ recentWatcherEchoes' = echoes
                  /\ UNCHANGED <<processing, turns, started, written>>
             ELSE /\ recentWatcherEchoes' =
                        StartWatcherEchoSuppression(echoes, d.id, p, now)
                  /\ processing' = processing \cup {d.id}
                  /\ turns' = turns \cup
                        {[thread |-> d.id, message |-> m, prompt |-> p,
                          session |-> threadRow.codex_thread_id, said |-> FALSE]}
                  /\ started' = started \cup {m}
                  /\ written' = IF threadRow.codex_thread_id = Null THEN written
                                ELSE written \cup
                                     {[session |-> threadRow.codex_thread_id,
                                       role |-> "user", text |-> p]}
                  /\ UNCHANGED chat
    /\ UNCHANGED <<projects, nextProjectId, lastCall, threadStatus, failed,
                   dvars, kvars, uvars, cvars, lvars, pvars, mvars, wvars, xvars>>

\* streamCodexResponse (message-sync.ts 108-157): a completed agent message
\* is remembered as an echo and sent to the thread.
TurnAnswer(r, a) ==
    /\ r \in turns
    /\ ~r.said
    /\ recentWatcherEchoes' =
          RememberWatcherAssistantEcho(recentWatcherEchoes, r.thread, a, now)
    /\ chat' = chat \cup {[thread |-> r.thread, kind |-> "answer",
                             role |-> "assistant", text |-> a,
                             message |-> r.message, known |-> FALSE]}
    /\ turns' = (turns \ {r}) \cup {[r EXCEPT !.said = TRUE]}
    /\ written' = IF r.session = Null THEN written
                  ELSE written \cup {[session |-> r.session,
                                      role |-> "assistant", text |-> a]}
    /\ UNCHANGED <<processing, threadStatus, userMessages, started, failed,
                   svars, dvars, kvars, uvars, cvars, lvars, pvars, mvars, wvars, xvars>>

\* The end of a turn (message-sync.ts 85-95): the events end, or the turn
\* throws and the catch block reports it and marks the row; the finally block
\* runs either way.
TurnEnds(r, threw) ==
    /\ r \in turns
    /\ IF threw
       THEN /\ chat' = chat \cup {[thread |-> r.thread, kind |-> "error",
                                     role |-> "bot", text |-> r.prompt,
                                     message |-> r.message, known |-> FALSE]}
            /\ threadStatus' = [threadStatus EXCEPT ![r.thread] = "error"]
            /\ failed' = failed \cup {r.message}
       ELSE UNCHANGED <<chat, threadStatus, failed>>
    /\ processing' = ProcessingAfterTurn(processing, r.thread)
    /\ recentWatcherEchoes' =
          ExtendWatcherEchoSuppression(recentWatcherEchoes, r.thread, now)
    /\ turns' = turns \ {r}
    /\ UNCHANGED <<userMessages, started, written,
                   svars, dvars, kvars, uvars, cvars, lvars, pvars, mvars, wvars, xvars>>

\* handleSessionUpdate for a text the agent wrote to a mapped session's file
\* (client.ts 318-398): the text is sent to the session's thread with its
\* role prefix; the echo entries are not looked at. The record keeps what
\* shouldSuppressSessionEcho would have said at that moment.
TurnReplay(w) ==
    /\ w \in written
    /\ ThreadGetByCodexThreadId(threads, w.session) # NoRow
    /\ LET d == ThreadGetByCodexThreadId(threads, w.session).discord_thread_id
       IN chat' = chat \cup {[thread |-> d, kind |-> "replay",
                                role |-> w.role, text |-> w.text, message |-> 0,
                                known |-> ShouldSuppressSessionEcho(
                                              recentWatcherEchoes, processing,
                                              now, d, w.role, w.text)]}
    /\ written' = written \ {w}
    /\ UNCHANGED <<processing, recentWatcherEchoes, turns, threadStatus,
                   userMessages, started, failed,
                   svars, dvars, kvars, uvars, cvars, lvars, pvars, mvars, wvars, xvars>>

InitTurn == InitFresh /\ StoreMapped /\ ChatMapped /\ BotIdle /\ NoProcesses /\ StoreOpened

NextTurn ==
    \/ \E d \in dthreads, p \in Prompts : TurnMessage(d, p)
    \/ \E r \in turns, a \in Answers : TurnAnswer(r, a)
    \/ \E r \in turns, threw \in BOOLEAN : TurnEnds(r, threw)
    \/ \E w \in written : TurnReplay(w)
    \/ ClockTick

SpecTurn == InitTurn /\ [][NextTurn]_vars

\* The messages of one kind the bot sent.
ChatOf(kind) == {c \in chat : c.kind = kind}

\* C12: a text that reached a thread through an interactive turn (the user's
\* prompt, a streamed answer) and that the tailer hands over while the
\* thread's echo entry still holds it is not sent to the thread by the replay.
C12_NoEchoOfInteractiveTurn ==
    \A c \in ChatOf("replay") : ~c.known

\* C13: no chat thread has two turns in flight; every user message either
\* started a turn or got the busy reply, never both, so a message answered
\* with the busy reply is neither run nor kept for later.
C13_OneTurnPerThread ==
    /\ \A r1, r2 \in turns : r1.thread = r2.thread => r1 = r2
    /\ processing = {r.thread : r \in turns}
    /\ \A m \in 1..userMessages :
          (m \in started) # (\E c \in ChatOf("busy") : c.message = m)

\* A message got the busy reply in a thread whose turn is still in flight,
\* while the other thread has a turn of its own.
C13_Witness ==
    \E c \in ChatOf("busy") :
        /\ \E r \in turns : r.thread = c.thread /\ r.message < c.message
        /\ \E r \in turns : r.thread # c.thread

\* C15: once a turn has thrown, the thread holds the error message, its row's
\* status is error, and the thread is marked in flight only while a later
\* turn runs.
C15_FailedTurnReportedAndCleared ==
    \A m \in failed :
        \E c \in ChatOf("error") :
            /\ c.message = m
            /\ threadStatus[c.thread] = "error"
            /\ (c.thread \in processing
                => \E r \in turns : r.thread = c.thread /\ r.message > m)

\* A turn threw and the thread's next message started a turn.
C15_Witness ==
    \E m \in failed, c \in ChatOf("error"), r \in turns :
        /\ c.message = m
        /\ r.thread = c.thread
        /\ r.message > m

(***************************************************************************)
(* Startup: the single-instance lock, the store, the bot.                  *)
(***************************************************************************)
\* isProcessAlive: the processes that did not die or exit.
IsProcessAlive(pid) ==
    /\ pid \in Procs
    /\ procs[pid].pc \notin {"idle", "dead", "exited"}

\* parseLockMetadata of what readLockMetadata read: 0 stands for null (no
\* file, or a file with nothing written in it yet).
ReadLockMetadata == IF lockFile = NoLockFile THEN 0 ELSE lockFile.pid

\* main is entered and calls acquireProcessLock (index.ts 7-12).
MainStarts(p) ==
    /\ procs[p].pc = "idle"
    /\ procs' = [procs EXCEPT ![p].pc = "open"]
    /\ UNCHANGED <<lockFile, tvars, svars, dvars, kvars, uvars, cvars, lvars, mvars, wvars, xvars>>

\* open(path, "wx") (process-lock.ts 126, 180-184): creates the file empty,
\* or fails with EEXIST.
LockOpen(p) ==
    /\ procs[p].pc = "open"
    /\ IF lockFile = NoLockFile
       THEN /\ lockFile' = [creator |-> p, pid |-> 0]
            /\ procs' = [procs EXCEPT ![p].pc = "write"]
       ELSE /\ procs' = [procs EXCEPT ![p].pc = "read"]
            /\ UNCHANGED lockFile
    /\ UNCHANGED <<tvars, svars, dvars, kvars, uvars, cvars, lvars, mvars, wvars, xvars>>

\* handle.writeFile (128-136) writes through the handle: the metadata lands in
\* the file this process created, even when the path no longer names it. The
\* lock is then returned to main (175-179, index.ts 13).
LockWrite(p) ==
    /\ procs[p].pc = "write"
    /\ lockFile' = IF lockFile.creator = p THEN [lockFile EXCEPT !.pid = p]
                   ELSE lockFile
    /\ procs' = [procs EXCEPT ![p].pc = "held", ![p].locked = TRUE]
    /\ UNCHANGED <<tvars, svars, dvars, kvars, uvars, cvars, lvars, mvars, wvars, xvars>>

\* The mutant of the loop that tries again without counting.
NextAttemptAgain(proc) == [proc EXCEPT !.pc = "open"]

\* The loop of acquireProcessLock goes round (124, 189-201): after the last
\* attempt the call fails, else it tries again.
NextAttempt(proc) ==
    IF proc.attempt = LockRetries
    THEN [proc EXCEPT !.pc = "failed", !.failed = TRUE]
    ELSE [proc EXCEPT !.pc = "open", !.attempt = @ + 1]

\* removeLockIfStale up to its rm (97-108), and the loop's reaction (186-197).
LockRead(p) ==
    /\ procs[p].pc = "read"
    /\ LET lock == ReadLockMetadata
       IN procs' = [procs EXCEPT ![p] =
                       IF lock = 0 \/ ~IsProcessAlive(lock)
                       THEN [@ EXCEPT !.pc = "remove", !.ownerPid = 0,
                                      !.stale = lock]
                       ELSE NextAttempt([@ EXCEPT !.ownerPid = lock,
                                                  !.stale = 0])]
    /\ UNCHANGED <<lockFile, tvars, svars, dvars, kvars, uvars, cvars, lvars, mvars, wvars, xvars>>

\* rm(path, force) of removeLockIfStale (99, 104), then continue (189-191),
\* or the throw after the loop (201).
LockRemove(p) ==
    /\ procs[p].pc = "remove"
    /\ lockFile' = NoLockFile
    /\ procs' = [procs EXCEPT ![p] = NextAttempt(@)]
    /\ UNCHANGED <<tvars, svars, dvars, kvars, uvars, cvars, lvars, mvars, wvars, xvars>>

\* main's reaction to a failed acquireProcessLock (index.ts 90-101).
MainLockFailed(p) ==
    /\ procs[p].pc = "failed"
    /\ procs' = [procs EXCEPT ![p].pc = "exited"]
    /\ UNCHANGED <<lockFile, tvars, svars, dvars, kvars, uvars, cvars, lvars, mvars, wvars, xvars>>

\* Where main goes after initDatabase (index.ts 75-85).
AfterInitDatabaseAnyway(ok) == "ready"

AfterInitDatabase(ok) == IF ok THEN "ready" ELSE "release"

\* initDatabase succeeds or throws (index.ts 77, 82-85).
MainInitDatabase(p, ok) ==
    /\ procs[p].pc = "held"
    /\ procs' = [procs EXCEPT ![p].pc = AfterInitDatabase(ok),
                              ![p].store = ok,
                              ![p].failed = ~ok]
    /\ UNCHANGED <<lockFile, tvars, svars, dvars, kvars, uvars, cvars, lvars, mvars, wvars, xvars>>

\* new DiscordBot and bot.start (index.ts 80-81): login, watcher, sync.
MainBotStart(p) ==
    /\ procs[p].pc = "ready"
    /\ procs' = [procs EXCEPT ![p].pc = "running", ![p].bot = TRUE]
    /\ UNCHANGED <<lockFile, tvars, svars, dvars, kvars, uvars, cvars, lvars, mvars, wvars, xvars>>

\* A signal: shutdown stops the bot and releases the lock (index.ts 24-58).
MainShutdown(p) ==
    /\ procs[p].pc = "running"
    /\ procs' = [procs EXCEPT ![p].pc = "release"]
    /\ UNCHANGED <<lockFile, tvars, svars, dvars, kvars, uvars, cvars, lvars, mvars, wvars, xvars>>

\* release (process-lock.ts 145-152): the file is read and compared.
ReleaseRead(p) ==
    /\ procs[p].pc = "release"
    /\ procs' = [procs EXCEPT ![p].pc = IF ReadLockMetadata = p THEN "unlink"
                                        ELSE "exited"]
    /\ UNCHANGED <<lockFile, tvars, svars, dvars, kvars, uvars, cvars, lvars, mvars, wvars, xvars>>

\* release (153): rm of the path, then the process exits (index.ts 50, 100).
ReleaseRemove(p) ==
    /\ procs[p].pc = "unlink"
    /\ lockFile' = NoLockFile
    /\ procs' = [procs EXCEPT ![p].pc = "exited"]
    /\ UNCHANGED <<tvars, svars, dvars, kvars, uvars, cvars, lvars, mvars, wvars, xvars>>

\* The process is killed: nothing of it runs any more.
ProcessDies(p) ==
    /\ procs[p].pc \in {"held", "ready", "running"}
    /\ procs' = [procs EXCEPT ![p].pc = "dead"]
    /\ UNCHANGED <<lockFile, tvars, svars, dvars, kvars, uvars, cvars, lvars, mvars, wvars, xvars>>

\* The lock file at startup: none, or the one a killed process left.
InitLock ==
    /\ InitFresh /\ StoreEmpty /\ ChatEmpty /\ BotIdle /\ StoreOpened
    /\ lockFile \in {NoLockFile, StaleLockFile}
    /\ procs = [p \in Procs |-> NotStarted]

NextLock ==
    \E p \in Procs :
        \/ MainStarts(p)
        \/ LockOpen(p)
        \/ LockWrite(p)
        \/ LockRead(p)
        \/ LockRemove(p)
        \/ MainLockFailed(p)
        \/ \E ok \in BOOLEAN : MainInitDatabase(p, ok)
        \/ MainBotStart(p)
        \/ MainShutdown(p)
        \/ ReleaseRead(p)
        \/ ReleaseRemove(p)
        \/ ProcessDies(p)

SpecLock == InitLock /\ [][NextLock]_vars

\* The process holds the lock: it created the file and has not released it.
HoldsLock(p) == procs[p].pc \in {"write", "held", "ready", "running"}

\* acquireProcessLock returned the lock to the process, which still runs.
Acquired(p) == procs[p].pc \in {"held", "ready", "running"}

\* C14: while a live process holds the lock, from its exclusive create to its
\* release, acquireProcessLock has not succeeded in any other live process.
C14_LockIsExclusive ==
    \A p, q \in Procs : p # q => ~(HoldsLock(p) /\ Acquired(q))

\* C20: a process starts the bot only with the lock held and the store
\* initialized, and a process whose lock acquisition or store initialization
\* failed never starts the bot.
C20_BotOnlyAfterLockAndStore ==
    \A p \in Procs :
        /\ procs[p].bot => procs[p].locked /\ procs[p].store
        /\ procs[p].failed => ~procs[p].bot /\ procs[p].pc # "running"

\* One process gave up on the lock, the other failed to initialize the store;
\* both exited.
C20_Witness ==
    \E p, q \in Procs :
        /\ p # q
        /\ procs[p].pc = "exited" /\ procs[p].failed /\ ~procs[p].locked
        /\ procs[q].pc = "exited" /\ procs[q].failed /\ procs[q].locked

(***************************************************************************)
(* The store at startup: initDatabase and its reconciliation passes, and   *)
(* ProjectRepo.delete on a store with messages.                            *)
(***************************************************************************)
MaxProjectRows == 2
MaxThreadRows == 3
MaxMessageRows == 1
MaxStartups == 2

\* The paths a store written by an earlier version may hold.
RawPaths == Paths \cup {"/a/"}
StoredSessions == {Null, "S1", "S2"}

\* canonicalizeProjectPath on these paths: resolve drops the trailing slash.
CanonicalizeFlipped(path) ==
    IF path = "/a/" THEN "/a" ELSE IF path = "/a" THEN "/a/" ELSE path

CanonicalizeProjectPath(path) == IF path = "/a/" THEN "/a" ELSE path

\* ORDER BY id ASC.
RECURSIVE RowsAscending(_)
RowsAscending(rows) ==
    IF rows = {} THEN <<>>
    ELSE LET first == CHOOSE r \in rows : \A o \in rows : r.id <= o.id
         IN <<first>> \o RowsAscending(rows \ {first})

\* The three tables together.
Tables == [projects |-> projects, threads |-> threads, messages |-> messageRows]

\* ON DELETE CASCADE of threads.project_id and of messages.thread_id, in
\* force while the connection enforces foreign keys.
DeleteThreadsWhere(db, gone, fk) ==
    [db EXCEPT !.threads = @ \ gone,
               !.messages = IF fk
                            THEN {m \in @ : \A t \in gone : m.thread_id # t.id}
                            ELSE @]

DeleteProject(db, id, fk) ==
    LET rest == [db EXCEPT !.projects = {r \in @ : r.id # id}]
    IN IF fk THEN DeleteThreadsWhere(rest, {t \in db.threads : t.project_id = id}, fk)
       ELSE rest

\* UPDATE threads SET project_id = keep WHERE project_id = dup.
RepointThreadsNot(ts, dup, keep) == ts

RepointThreads(ts, dup, keep) ==
    {IF t.project_id = dup THEN [t EXCEPT !.project_id = keep] ELSE t : t \in ts}

\* UPDATE messages SET thread_id = keep WHERE thread_id = dup.
RepointMessagesNot(ms, dup, keep) == ms

RepointMessages(ms, dup, keep) ==
    {IF m.thread_id = dup THEN [m EXCEPT !.thread_id = keep] ELSE m : m \in ms}

\* UPDATE projects SET project_path: refused by the unique index on
\* project_path, when it exists, if another row holds the path.
PathUpdateFails(ps, id, path, indexed) ==
    indexed /\ \E r \in ps : r.id # id /\ r.project_path = path

\* migrateCanonicalProjectPaths: the loop over the rows read at its start; st
\* holds the tables, the map keepByCanonicalPath and whether a statement threw.
RECURSIVE MigrateCanonicalProjectPaths(_, _, _)
MigrateCanonicalProjectPaths(todo, st, indexed) ==
    IF todo = <<>> \/ st.threw THEN st
    ELSE LET project == Head(todo)
             canonicalPath == CanonicalizeProjectPath(project.project_path)
             keepId == st.keep[canonicalPath]
             next ==
                IF keepId = 0
                THEN IF project.project_path # canonicalPath
                     THEN IF PathUpdateFails(st.db.projects, project.id,
                                             canonicalPath, indexed)
                          THEN [st EXCEPT !.threw = TRUE]
                          ELSE [st EXCEPT
                                  !.keep[canonicalPath] = project.id,
                                  !.db.projects =
                                     {IF r.id = project.id
                                      THEN [r EXCEPT !.project_path = canonicalPath]
                                      ELSE r : r \in @}]
                     ELSE [st EXCEPT !.keep[canonicalPath] = project.id]
                ELSE [st EXCEPT !.db =
                        DeleteProject(
                            [@ EXCEPT !.threads =
                                 RepointThreads(@, project.id, keepId)],
                            project.id, TRUE)]
         IN MigrateCanonicalProjectPaths(Tail(todo), next, indexed)

\* dedupeCodexThreadMappings: the loop over the rows with a session id.
RECURSIVE DedupeCodexThreadMappings(_, _)
DedupeCodexThreadMappings(todo, st) ==
    IF todo = <<>> THEN st
    ELSE LET thread == Head(todo)
             keepId == st.keep[thread.codex_thread_id]
             next ==
                IF keepId = 0
                THEN [st EXCEPT !.keep[thread.codex_thread_id] = thread.id]
                ELSE [st EXCEPT !.db =
                        DeleteThreadsWhere(
                            [@ EXCEPT !.messages =
                                 RepointMessages(@, thread.id, keepId)],
                            {t \in @.threads : t.id = thread.id}, TRUE)]
         IN DedupeCodexThreadMappings(Tail(todo), next)

\* createIndexes: a unique index is made unless the rows contradict it
\* (runIndex swallows the failure); an index that exists stays.
CreateIndexes(db, indexes) ==
    [paths |-> \/ indexes.paths
               \/ \A p, q \in db.projects :
                     p.project_path = q.project_path => p = q,
     sessions |-> \/ indexes.sessions
                  \/ \A t, u \in db.threads :
                        (t.codex_thread_id # Null
                         /\ t.codex_thread_id = u.codex_thread_id) => t = u]

\* runMigrations after the CREATE TABLE IF NOT EXISTS statements.
RunMigrations(db, indexes) ==
    LET merged == MigrateCanonicalProjectPaths(
                      RowsAscending(db.projects),
                      [db |-> db, keep |-> [c \in RawPaths |-> 0], threw |-> FALSE],
                      indexes.paths)
        deduped == DedupeCodexThreadMappings(
                      RowsAscending({t \in merged.db.threads :
                                        t.codex_thread_id # Null}),
                      [db |-> merged.db, keep |-> [c \in Sessions |-> 0],
                       threw |-> FALSE])
    IN [threw |-> merged.threw, merged |-> merged.db, after |-> deduped.db]

\* initDatabase (73-92): foreign keys are switched on, the migrations run on
\* the loaded file, and the result is saved; a throw leaves the file as it was.
Startup ==
    /\ Len(startupLog) < MaxStartups
    /\ ~startupThrew
    /\ LET run == RunMigrations(Tables, uniqueIndexes)
       IN IF run.threw
          THEN /\ startupThrew' = TRUE
               /\ UNCHANGED <<projects, threads, messageRows, uniqueIndexes,
                              startupLog>>
          ELSE /\ projects' = run.after.projects
               /\ threads' = run.after.threads
               /\ messageRows' = run.after.messages
               /\ uniqueIndexes' = CreateIndexes(run.after, uniqueIndexes)
               /\ startupLog' = Append(startupLog,
                                       [before |-> Tables, merged |-> run.merged,
                                        after |-> run.after])
               /\ UNCHANGED startupThrew
    /\ UNCHANGED <<nextProjectId, nextThreadRowId, lastCall, lastDelete, tvars, pvars, dvars, kvars, uvars, cvars, lvars,
                   wvars, xvars>>

\* ProjectRepo.delete on the opened store: the threads of the project are
\* deleted, then the project. The PRAGMA was issued once, in initDatabase, and
\* every write since was followed by saveDatabase, which exports the
\* database; whether the connection still enforces foreign keys after an
\* export is the library's, so both cases are taken.
StoreProjectDelete(p, enforced) ==
    /\ Len(startupLog) > 0
    /\ lastDelete = NoCall
    /\ p \in projects
    /\ LET gone == {t \in threads : t.project_id = p.id}
           db == DeleteProject(DeleteThreadsWhere(Tables, gone, enforced),
                               p.id, enforced)
       IN /\ projects' = db.projects
          /\ threads' = db.threads
          /\ messageRows' = db.messages
          /\ lastDelete' = [op |-> "ProjectRepo.delete", id |-> p.id,
                            enforced |-> enforced,
                            before |-> Tables, after |-> db]
    /\ UNCHANGED <<nextProjectId, nextThreadRowId, lastCall, uniqueIndexes,
                   startupLog, startupThrew, tvars, pvars, dvars,
                   kvars, uvars, cvars, lvars, wvars, xvars>>

\* No two rows hold the same path; every stored path is canonical.
PathsDistinct(ps) == \A p, q \in ps : p.project_path = q.project_path => p = q
PathsCanonical(ps) ==
    \A p \in ps : CanonicalizeProjectPath(p.project_path) = p.project_path
SessionsDistinct(ts) ==
    \A t, u \in ts :
        (t.codex_thread_id # Null /\ t.codex_thread_id = u.codex_thread_id)
        => t = u

\* The store file found at startup: one an earlier version wrote (any rows,
\* no unique index), or one this version wrote (both indexes made; the paths
\* were canonicalized by the callers of ProjectRepo.create).
InitStore ==
    /\ InitFresh /\ ChatEmpty /\ BotIdle /\ NoProcesses
    /\ \E np \in 0..MaxProjectRows : \E path \in [1..np -> RawPaths] :
          /\ projects = {[id |-> i, channel_id |-> i, project_path |-> path[i]] :
                           i \in 1..np}
          /\ nextProjectId = np + 1
          /\ \E nt \in 0..(IF np = 0 THEN 0 ELSE MaxThreadRows) :
             \E session \in [1..nt -> StoredSessions], owner \in [1..nt -> 1..np] :
                /\ threads = {[id |-> i, discord_thread_id |-> i,
                               codex_thread_id |-> session[i],
                               project_id |-> owner[i]] : i \in 1..nt}
                /\ nextThreadRowId = nt + 1
                /\ \E nm \in 0..(IF nt = 0 THEN 0 ELSE MaxMessageRows) :
                   \E holder \in [1..nm -> 1..nt] :
                      messageRows = {[id |-> i, thread_id |-> holder[i]] : i \in 1..nm}
    /\ lastCall = NoCall
    /\ uniqueIndexes \in {[paths |-> FALSE, sessions |-> FALSE],
                          [paths |-> TRUE, sessions |-> TRUE]}
    /\ uniqueIndexes.paths => PathsDistinct(projects) /\ PathsCanonical(projects)
    /\ uniqueIndexes.sessions => SessionsDistinct(threads)
    /\ startupLog = <<>>
    /\ startupThrew = FALSE
    /\ lastDelete = NoCall

NextStore ==
    \/ Startup
    \/ \E p \in projects, enforced \in BOOLEAN : StoreProjectDelete(p, enforced)

SpecStore == InitStore /\ [][NextStore]_vars

\* The rows of a set of projects that canonicalize to path c.
GroupOf(ps, c) == {r \in ps : CanonicalizeProjectPath(r.project_path) = c}

\* The lowest id among rows.
LowestId(rows) == (CHOOSE r \in rows : \A o \in rows : r.id <= o.id).id

\* C16: after the pass that merges projects, no two project rows canonicalize
\* to the same path; of each group of rows that did, the row with the lowest
\* id is left, with the canonical path; every thread row is still there and
\* belongs to the survivor of its project's group.
C16_ProjectsMerged ==
    \A i \in 1..Len(startupLog) :
        LET b == startupLog[i].before
            m == startupLog[i].merged
        IN /\ \A p, q \in m.projects :
                 CanonicalizeProjectPath(p.project_path)
                    = CanonicalizeProjectPath(q.project_path) => p = q
           /\ \A c \in RawPaths :
                 GroupOf(b.projects, c) # {}
                 => \E r \in GroupOf(b.projects, c) :
                       /\ r.id = LowestId(GroupOf(b.projects, c))
                       /\ m.projects \cap
                             {x \in m.projects :
                                 \E g \in GroupOf(b.projects, c) : g.id = x.id}
                          = {[r EXCEPT !.project_path = c]}
           /\ \A t \in b.threads :
                 \E p \in b.projects :
                    /\ p.id = t.project_id
                    /\ [t EXCEPT !.project_id =
                           LowestId(GroupOf(b.projects,
                                            CanonicalizeProjectPath(p.project_path)))]
                       \in m.threads
           /\ Cardinality(m.threads) = Cardinality(b.threads)

\* A startup merged two duplicate projects, each with a thread.
C16_Witness ==
    \E i \in 1..Len(startupLog) :
        LET b == startupLog[i].before
        IN \E p, q \in b.projects :
              /\ p.id < q.id
              /\ p.project_path # q.project_path
              /\ CanonicalizeProjectPath(p.project_path)
                    = CanonicalizeProjectPath(q.project_path)
              /\ \E t, u \in b.threads : t.project_id = p.id /\ u.project_id = q.id

\* The thread rows of ts that hold session s.
HoldersOf(ts, s) == {t \in ts : t.codex_thread_id = s}

\* C17: after the pass that merges threads, no two thread rows hold the same
\* session id; of each group that did, the row with the lowest id is left;
\* every message row is still there and belongs to the survivor of its
\* thread's group; the thread rows without a session id are as before.
C17_ThreadsDeduped ==
    \A i \in 1..Len(startupLog) :
        LET m == startupLog[i].merged
            a == startupLog[i].after
        IN /\ SessionsDistinct(a.threads)
           /\ \A s \in StoredSessions \ {Null} :
                 HoldersOf(m.threads, s) # {}
                 => HoldersOf(a.threads, s) =
                       {t \in HoldersOf(m.threads, s) :
                           t.id = LowestId(HoldersOf(m.threads, s))}
           /\ HoldersOf(a.threads, Null) = HoldersOf(m.threads, Null)
           /\ \A x \in m.messages :
                 \A t \in m.threads :
                    t.id = x.thread_id
                    => [x EXCEPT !.thread_id =
                           IF t.codex_thread_id = Null THEN t.id
                           ELSE LowestId(HoldersOf(m.threads, t.codex_thread_id))]
                       \in a.messages
           /\ Cardinality(a.messages) = Cardinality(m.messages)

\* A startup merged two threads of one session, the later one with a message,
\* next to a thread without session id.
C17_Witness ==
    \E i \in 1..Len(startupLog) :
        LET m == startupLog[i].merged
        IN \E t, u, v \in m.threads :
              /\ t.id < u.id
              /\ t.codex_thread_id # Null
              /\ t.codex_thread_id = u.codex_thread_id
              /\ v.codex_thread_id = Null
              /\ \E x \in m.messages : x.thread_id = u.id

\* The store has no duplicates: no two projects of one canonical path, no two
\* threads of one session.
StoreHasNoDuplicates(db) ==
    /\ \A p, q \in db.projects :
          CanonicalizeProjectPath(p.project_path)
             = CanonicalizeProjectPath(q.project_path) => p = q
    /\ SessionsDistinct(db.threads)

C19_DeleteCascades ==
    lastDelete # NoCall =>
        LET b == lastDelete.before
            a == lastDelete.after
            gone == {t \in b.threads : t.project_id = lastDelete.id}
        IN /\ \A t \in a.threads : t.project_id # lastDelete.id
           /\ \A x \in a.messages : \A t \in gone : x.thread_id # t.id
           /\ a.projects = {p \in b.projects : p.id # lastDelete.id}
           /\ a.threads = b.threads \ gone
           /\ \A x \in b.messages :
                 (\A t \in gone : x.thread_id # t.id) => x \in a.messages

(***************************************************************************)
(* More claims about the live replay and the new-session tasks.            *)
(***************************************************************************)
\* C21: an update that arrives for a mapped session leaves nothing in the
\* session's buffer, and a line handed over after the mapping reaches the
\* thread only after the lines buffered before it (less those the cap pushed
\* out).
C21_BufferedBeforeNew ==
    /\ \A c \in calls : c.task = 0 => pendingSessionLines[c.session] = <<>>
    /\ \A j \in 1..Len(posted) :
          posted[j].line \notin SeqToSet(everBuffered[posted[j].session])
          => \A l \in SeqToSet(KeptBuffered(posted[j].session)) :
                l < posted[j].line
                => \E i \in 1..(j - 1) : /\ posted[i].session = posted[j].session
                                         /\ posted[i].line = l

\* A project channel leaves the bot's reach: it is deleted in the chat
\* platform, or the bot loses access to it; its threads go with it.
ChannelLost(c) ==
    /\ c \in channels
    /\ channels' = channels \ {c}
    /\ dthreads' = {d \in dthreads : d.parent # c.id}
    /\ UNCHANGED <<nextChannel, nextDThread, threadEvents, svars, kvars, uvars,
                   cvars, lvars, ovars, wvars, xvars>>

\* New-session handling with project channels that can go stale.
NextStale ==
    \/ NextChain
    \/ \E c \in channels : ChannelLost(c)

SpecStale == InitSync /\ [][NextStale]_vars

RowsOfPath(ps, p) == {r \in ps : r.project_path = p}

\* C23: a task whose fetch fails with 10003 or 50001 deletes the stored row
\* and goes on to create a channel, and its insert leaves exactly one Project
\* row for the path, a new row that names the new channel.
C23_StaleProjectRecreated ==
    [][\A t \in Tasks :
          /\ (/\ tasks[t].pc = "fetch"
              /\ tasks'[t].pc # "fetch"
              /\ tasks'[t].fetchError \in {10003, 50001})
             => /\ tasks'[t].pc = "createChannel"
                /\ tasks[t].project \in projects
                /\ RowsOfPath(projects', TaskPath(t)) = {}
          /\ (/\ tasks[t].pc = "createChannel"
              /\ tasks'[t].pc # "createChannel"
              /\ tasks[t].fetchError \in {10003, 50001})
             => /\ \E c \in channels' : c.id = nextChannel
                /\ ~ChannelExists(nextChannel)
                /\ \E r \in projects' :
                      /\ RowsOfPath(projects', TaskPath(t)) = {r}
                      /\ r.channel_id = nextChannel
                      /\ r \notin projects]_vars

C23_Witness ==
    \E t \in Tasks : /\ tasks[t].pc = "done"
                     /\ tasks[t].fetchError \in {10003, 50001}
                     /\ tasks[t].outcome = "ok"
                     /\ Cardinality(RowsOfPath(projects, TaskPath(t))) = 1

\* The newest n elements of a sequence, in their order.
Newest(seq, n) ==
    IF Len(seq) > n THEN SubSeq(seq, Len(seq) - n + 1, Len(seq)) ELSE seq

\* C24: a session's buffer never holds more lines than the cap, and while it
\* holds any it holds the newest lines handed to it, up to the cap, in the
\* order in which they were handed over.
C24_BufferCapKeepsNewest ==
    \A s \in Sessions :
        /\ Len(pendingSessionLines[s]) <= MaxBuffered
        /\ pendingSessionLines[s] # <<>>
           => pendingSessionLines[s] = Newest(everBuffered[s], MaxBuffered)

\* An append went past the cap and the oldest line was dropped.
C24_Witness ==
    \E s \in Sessions :
        /\ Len(everBuffered[s]) > MaxBuffered
        /\ Len(pendingSessionLines[s]) = MaxBuffered
        /\ Head(everBuffered[s]) \in spliced

\* The task's step from one await to the next.
Steps(t) == tasks'[t] # tasks[t]

\* C25: a new-session task that finds a Thread row for its session at the
\* lookup before the thread creation makes no chat thread and no Thread row:
\* it goes on to flush the session's buffer, which touches no other buffer,
\* and its remaining steps leave the mappings as they were.
C25_KnownSessionOnlyFlushes ==
    [][\A t \in Tasks :
          /\ (/\ tasks[t].pc = "threadSection"
              /\ ThreadRowsOf(tasks[t].session) # {}
              /\ Steps(t))
             => /\ tasks'[t].pc = "finishing"
                /\ UNCHANGED <<svars, dvars, lvars>>
          /\ (/\ tasks[t].pc \in {"finishing", "flushing"}
              /\ Steps(t))
             => /\ UNCHANGED <<svars, dvars>>
                /\ \A s \in Sessions \ {tasks[t].session} :
                      pendingSessionLines'[s] = pendingSessionLines[s]
                /\ tasks[t].pc = "finishing"
                   => pendingSessionLines'[tasks[t].session] = <<>>]_vars

\* The same session was handled twice and has one chat thread and one row.
C25_Witness ==
    \E t, u \in Tasks :
        /\ t # u
        /\ tasks[t].session = tasks[u].session
        /\ tasks[t].pc = "done" /\ tasks[t].outcome = "ok"
        /\ tasks[u].pc = "done" /\ tasks[u].outcome = "ok"
        /\ Cardinality(ThreadRowsOf(tasks[t].session)) = 1
        /\ Cardinality({d \in dthreads : d.forSession = tasks[t].session}) = 1

\* The tasks of a key that were queued and have not finished.
Unfinished(p) ==
    {t \in Tasks : /\ tasks[t].pc \notin {"idle", "done"}
                   /\ TaskPath(t) = p}

\* C26: a key whose queued tasks have all finished has no entry in the lock
\* map, and while a task of the key is pending or running the map holds the
\* entry of the key's latest task.
C26_LockEntryLivesWithTasks ==
    \A p \in Paths :
        IF Unfinished(p) = {}
        THEN syncLocks[p] = 0
        ELSE /\ syncLocks[p] \in Unfinished(p)
             /\ \A t \in Unfinished(p) : t <= syncLocks[p]

\* An earlier task of a key finished while a later one was queued behind it,
\* and the key kept the later task's entry.
C26_Witness ==
    \E t, u \in Tasks :
        /\ t < u
        /\ tasks[t].pc = "done"
        /\ tasks[u].pc \notin {"idle", "done"}
        /\ tasks[u].prev = t
        /\ syncLocks[TaskPath(u)] = u

(***************************************************************************)
(* More claims about the process lock.                                     *)
(***************************************************************************)
\* C27: a process whose last look at the lock file found the pid of a dead
\* process does not give up, and when its acquireProcessLock has returned the
\* lock file records its own pid.
C27_StaleLockTakenOver ==
    \A p \in Procs :
        procs[p].stale # 0
        => /\ ~(procs[p].failed /\ ~procs[p].locked)
           /\ procs[p].pc = "held" => lockFile.pid = p

\* C28: while the lock file records a live process, a failed open is followed
\* by the look at the file and the look by the next attempt, or after attempt
\* number retries by the failure that names the recorded pid; the file is left
\* alone, and no process makes more than retries + 1 attempts.
C28_HeldLockFailsFast ==
    [][\A p \in Procs :
          /\ procs'[p].attempt <= LockRetries
          /\ (/\ procs[p].pc = "open"
              /\ lockFile # NoLockFile
              /\ procs'[p] # procs[p])
             => /\ procs'[p].pc = "read"
                /\ lockFile' = lockFile
          /\ (/\ procs[p].pc = "read"
              /\ IsProcessAlive(lockFile.pid)
              /\ procs'[p] # procs[p])
             => /\ lockFile' = lockFile
                /\ ~procs'[p].locked
                /\ IF procs[p].attempt = LockRetries
                   THEN /\ procs'[p].pc = "failed"
                        /\ procs'[p].ownerPid = lockFile.pid
                   ELSE /\ procs'[p].pc = "open"
                        /\ procs'[p].attempt = procs[p].attempt + 1]_vars

\* A process gave up after its last attempt and names the live holder.
C28_Witness ==
    \E p, q \in Procs :
        /\ p # q
        /\ procs[p].pc = "failed"
        /\ procs[p].attempt = LockRetries
        /\ procs[p].ownerPid = q
        /\ Acquired(q)
        /\ lockFile.pid = q

(***************************************************************************)
(* More claims about the session-file tailer.                              *)
(***************************************************************************)
\* The debounce timer of the file fires for a file without a recorded offset.
FirstProcessFile ==
    pending /\ ~pending' /\ fileExists /\ fileOffsets = NoOffset

\* C29 as stated: whenever processFile runs for a file without a recorded
\* offset, the new-session handler is called and the whole content of the file
\* is read from offset 0 and its lines delivered.
C29_FirstNotificationAnnounces ==
    [][FirstProcessFile
       => /\ newSessions' = newSessions + 1
          /\ fileOffsets' = Len(file)
          /\ delivered' = delivered \o CompleteLines(file)]_vars

\* C29, amended: when processFile runs for a file without a recorded offset and
\* the file's first line parses as its session meta, the new-session handler is
\* called before any line of the file is delivered, and the content is read
\* from offset 0 and its complete lines delivered in the same run; when the
\* first line does not parse yet, nothing is recorded, called or delivered.
\* No line of a file found by the watcher is delivered before the new-session
\* handler was called.
C29_FirstParsedNotificationAnnounces ==
    [][/\ FirstProcessFile
          => IF ParseSessionMetaOk(file)
             THEN /\ newSessions' = newSessions + 1
                  /\ announcedAt' = Len(delivered)
                  /\ fileOffsets' = Len(file)
                  /\ delivered' = delivered \o CompleteLines(file)
             ELSE /\ fileOffsets' = NoOffset
                  /\ UNCHANGED <<newSessions, announcedAt, delivered>>
       /\ (markedAt = NoOffset /\ delivered' # <<>>)
          => newSessions' > 0 /\ announcedAt' = 0]_vars

\* Two records were in the file when its first notification was processed.
C29_Witness ==
    /\ markedAt = NoOffset
    /\ newSessions = 1
    /\ announcedAt = 0
    /\ truncs = 0
    /\ Len(delivered) >= 2
    /\ fileOffsets = Len(file)
    /\ nextRec = 3

\* C30: for a file marked seen at startup and not truncated since, no line
\* the file held when it was marked is delivered, and the lines delivered are
\* the lines of the bytes appended since that have been read.
C30_MarkSeenSkipsBacklog ==
    (markedAt # NoOffset /\ truncs = 0)
    => /\ \A l \in SeqToSet(delivered) :
             l \notin SeqToSet(CompleteLines(SubSeq(file, 1, markedAt)))
       /\ fileOffsets >= markedAt
       /\ delivered = CompleteLines(SubSeq(file, markedAt + 1, fileOffsets))
       /\ newSessions = 0

\* A line appended after the file was marked has been delivered.
C30_Witness ==
    /\ markedAt # NoOffset
    /\ truncs = 0
    /\ delivered # <<>>
    /\ fileOffsets = Len(file)

(***************************************************************************)
(* The tailer over its whole life: the follow-up poll, a file that goes    *)
(* away, and stop().                                                       *)
(***************************************************************************)
\* The session file is removed from disk.
FileRemoved ==
    /\ fileExists
    /\ truncs < MaxTruncations
    /\ fileExists' = FALSE
    /\ file' = <<>>
    /\ truncs' = truncs + 1
    /\ genStart' = nextRec
    /\ synced' = FALSE
    /\ UNCHANGED <<fileOffsets, partialLines, sessionCache, pending,
                   followUpPollers, followUpDeadlines, now, delivered,
                   newSessions, nextRec, blanks, everLines, markedAt,
                   announcedAt, pollTimers, stopped, polled>>
    /\ UNCHANGED bvars

\* The mutant of stop that leaves the follow-up timer running.
TimersLeftRunning == pollTimers

\* The follow-up timers left by stop's clearTimeout of every followUpPollers
\* entry (lines 97-100).
TimersAfterStop == IF followUpPollers THEN pollTimers - 1 ELSE pollTimers

\* stop (lines 88-104): the fs watcher is closed, the timers held in pending
\* and followUpPollers are cleared, and followUpDeadlines and partialLines are
\* emptied.
Stop ==
    /\ ~stopped
    /\ stopped' = TRUE
    /\ pending' = FALSE
    /\ pollTimers' = TimersAfterStop
    /\ followUpPollers' = FALSE
    /\ followUpDeadlines' = NoDeadline
    /\ partialLines' = <<>>
    /\ UNCHANGED <<fileExists, file, fileOffsets, sessionCache, now, delivered,
                   newSessions, nextRec, blanks, truncs, genStart, everLines,
                   synced, markedAt, announcedAt, polled>>
    /\ UNCHANGED bvars

\* The tailer of a file that appears after the start, is appended to and may
\* be removed.
NextPoll ==
    \/ WriterAppend
    \/ Notify
    \/ ProcessFile
    \/ PollTick
    \/ ClockTick
    \/ FileRemoved

\* A timer that is set fires.
SpecPoll == InitSync /\ [][NextPoll]_vars /\ WF_vars(PollTick)

\* The tailer with every event of the file, and stop().
NextStop ==
    \/ NextWatcher
    \/ FileRemoved
    \/ Stop

SpecStop == InitWatcher /\ [][NextStop]_vars

\* C31: a file has at most one follow-up timer, the one its followUpPollers
\* entry stands for; a tick after the window or for a file that is gone ends
\* the poller, any other tick reads the file and sets the next timer; and bytes
\* appended to a file with a poller are read by a tick, their complete lines
\* delivered, with no notification needed, unless the poller has ended.
C31_FollowUpPollReads ==
    /\ [](pollTimers <= 1 /\ (followUpPollers <=> pollTimers = 1))
    /\ [][PollTick
          => IF now > followUpDeadlines \/ ~fileExists
             THEN /\ ~followUpPollers'
                  /\ pollTimers' = 0
                  /\ delivered' = delivered
             ELSE /\ followUpPollers'
                  /\ pollTimers' = 1
                  /\ fileOffsets' = Len(file)
                  /\ synced']_vars
    /\ (followUpPollers /\ ~synced)
       ~> (\/ ~followUpPollers
           \/ /\ synced
              /\ fileOffsets = Len(file)
              /\ AppendOnlyWatched => delivered = CompleteLines(file))

\* A line appended after the first read was handed over by a follow-up tick.
C31_Witness ==
    /\ polled > 0
    /\ truncs = 0
    /\ followUpPollers
    /\ synced
    /\ Len(delivered) >= 2

\* C32: once stop() has run no debounce timer and no follow-up timer is set,
\* and no step calls the new-session handler or the update handler.
C32_StoppedWatcherIsSilent ==
    /\ [](stopped => ~pending /\ pollTimers = 0 /\ ~followUpPollers)
    /\ [][stopped => UNCHANGED <<newSessions, delivered, polled>>]_vars

\* The watcher was stopped with a follow-up window still open, and bytes
\* written since lie unread.
C32_Witness ==
    /\ stopped
    /\ fileExists
    /\ delivered # <<>>
    /\ fileOffsets # NoOffset
    /\ fileOffsets < Len(file)
    /\ now = 0

\* C33: once stop() has run the watcher holds no per-file state: no offset, no
\* partial line, no poll deadline and no cached session meta.
C33_StoppedWatcherHoldsNothing ==
    stopped => /\ fileOffsets = NoOffset
               /\ partialLines = <<>>
               /\ followUpDeadlines = NoDeadline
               /\ ~sessionCache

\* The bytes after the last terminator of the part of the file read so far.
FragmentRead ==
    LET start == IF markedAt = NoOffset THEN 0 ELSE markedAt
        parts == Split(SubSeq(file, start + 1, fileOffsets))
    IN parts[Len(parts)]

\* C34: for a file that was not truncated, a fragment the last read ended in
\* has been handed over as the last line if it is a whole record, and is the
\* partial line otherwise; no line is handed over twice, whatever is appended
\* after the fragment.
C34_FragmentEmittedOnce ==
    (truncs = 0 /\ fileOffsets # NoOffset)
    => /\ IF FragmentRead # <<>> /\ JSONParses(FragmentRead)
          THEN /\ partialLines = <<>>
               /\ delivered # <<>>
               /\ delivered[Len(delivered)] = FragmentRead
          ELSE partialLines = FragmentRead
       /\ NoDuplicates(delivered)

\* A record was handed over before its terminator was written, and after the
\* terminator and the next record were read it is there once.
C34_Witness ==
    /\ truncs = 0
    /\ fileOffsets = Len(file)
    /\ FragmentRead # <<>> /\ JSONParses(FragmentRead)
    /\ Len(delivered) >= 2
    /\ delivered[Len(delivered)] = FragmentRead
    /\ polled > 0

\* C35: a step takes a thread's echo entry away only if the entry's expiry
\* time is reached and the thread has no turn in flight; the entry of a thread
\* with a turn in flight stays, expired or not.
C35_EchoEntryPrunedOnlyWhenIdle ==
    [][\A d \in DOMAIN recentWatcherEchoes :
          (recentWatcherEchoes[d].present /\ ~recentWatcherEchoes'[d].present)
          => /\ recentWatcherEchoes[d].expiresAt <= now
             /\ ~IsProcessing(processing, d)]_vars

\* One thread's entry is past its expiry and still there, its turn being in
\* flight, while the other thread, which had a turn, has lost its entry.
C35_Witness ==
    \E d1, d2 \in DOMAIN recentWatcherEchoes :
        /\ recentWatcherEchoes[d1].present
        /\ recentWatcherEchoes[d1].expiresAt < now
        /\ IsProcessing(processing, d1)
        /\ ~recentWatcherEchoes[d2].present
        /\ \E c \in ChatOf("answer") : c.thread = d2

(***************************************************************************)
(* The loop of handleSessionUpdate over the lines of one batch.            *)
(***************************************************************************)
MaxBatch == 3

\* The lines a batch can hold: text that is not JSON; a record of a type
\* neither extractor knows; a user response_item whose content is not
\* iterable; a user message holding internal context; user and assistant
\* messages with text A or B.
BatchLines == {"garbage", "other", "badContent", "hidden",
               "userA", "userB", "asstA", "asstB"}

InternalContext == "<environment_context></environment_context>"

\* JSON.parse throws (client.ts 373).
JSONParseThrows(line) == line = "garbage"

\* The for-of over payload.content throws on a value that is not iterable
\* (session-scanner.ts 263).
ExtractThrows(line) == line = "badContent"

\* extractUserTextsFromSessionEvent.
ExtractUserTextsFromSessionEvent(line) ==
    CASE line = "userA" -> <<"A">>
      [] line = "userB" -> <<"B">>
      [] line = "hidden" -> <<InternalContext>>
      [] OTHER -> <<>>

\* extractVisibleUserMessage.
ExtractVisibleUserMessage(text) == IF text = InternalContext THEN Null ELSE text

\* extractAssistantTextsFromSessionEvent.
ExtractAssistantTextsFromSessionEvent(line) ==
    CASE line = "asstA" -> <<"A">>
      [] line = "asstB" -> <<"B">>
      [] OTHER -> <<>>

\* The mutant of the loop's try block without its catch.
PropagatesUncaught(threw) == threw

\* The catch block of the loop body (client.ts 394-396) swallows what the
\* body threw.
Propagates(threw) == FALSE

\* handleSessionUpdate is past the fetch of the chat thread (client.ts
\* 335-345) and enters the loop with its batch.
BatchArrives(lines) ==
    /\ batchPc = "idle"
    /\ newLines' = lines
    /\ lineAt' = 1
    /\ batchPc' = IF lines = <<>> THEN "returned" ELSE "loop"
    /\ sends' = <<>>
    /\ sentUserBatch' = {}
    /\ sentAssistantBatch' = {}
    /\ UNCHANGED <<wvars, svars, dvars, kvars, uvars, cvars, lvars, ovars>>

\* One iteration of the loop (client.ts 371-397): parse the line, send its
\* visible user texts and its assistant texts that the batch has not sent
\* yet, each send succeeding or failing; a failed send is counted and the
\* loop goes on.
BatchLine(ok) ==
    /\ batchPc = "loop"
    /\ LET line == newLines[lineAt]
           threw == JSONParseThrows(line) \/ ExtractThrows(line)
           userTexts == IF threw THEN <<>>
                        ELSE SelectSeq(ExtractUserTextsFromSessionEvent(line),
                                 LAMBDA t : /\ ExtractVisibleUserMessage(t) # Null
                                            /\ t \notin sentUserBatch)
           assistantTexts == IF threw THEN <<>>
                             ELSE SelectSeq(ExtractAssistantTextsFromSessionEvent(line),
                                      LAMBDA t : t \notin sentAssistantBatch)
           Sent(role, texts) == [k \in 1..Len(texts) |->
                                   [at |-> lineAt, role |-> role,
                                    text |-> texts[k], ok |-> ok]]
       IN /\ sends' = sends \o Sent("user", userTexts)
                            \o Sent("assistant", assistantTexts)
          /\ sentUserBatch' = sentUserBatch \cup SeqToSet(userTexts)
          /\ sentAssistantBatch' = sentAssistantBatch \cup SeqToSet(assistantTexts)
          /\ batchPc' = IF Propagates(threw) THEN "threw"
                        ELSE IF lineAt = Len(newLines) THEN "returned"
                        ELSE "loop"
          /\ lineAt' = lineAt + 1
    /\ UNCHANGED <<newLines, wvars, svars, dvars, kvars, uvars, cvars, lvars, ovars>>

\* The batches of up to MaxBatch lines.
Batches == UNION {[1..n -> BatchLines] : n \in 1..MaxBatch}

NextBatch ==
    \/ \E lines \in Batches : BatchArrives(lines)
    \/ \E ok \in BOOLEAN : BatchLine(ok)

SpecBatch == InitSync /\ [][NextBatch]_vars

\* The messages a line holds for the chat thread.
LineMessages(line) ==
    IF JSONParseThrows(line) \/ ExtractThrows(line) THEN {}
    ELSE {[role |-> "user", text |-> t] :
             t \in {u \in SeqToSet(ExtractUserTextsFromSessionEvent(line)) :
                       ExtractVisibleUserMessage(u) # Null}}
         \cup {[role |-> "assistant", text |-> t] :
                  t \in SeqToSet(ExtractAssistantTextsFromSessionEvent(line))}

\* C36: the call never ends in an error; of the lines the loop is past, a
\* line was sent exactly if it holds a message the batch had not held before,
\* whatever lines that hold none came before it, and the sends follow the
\* order of the lines.
C36_BadLinesSkipped ==
    /\ batchPc # "threw"
    /\ \A i \in 1..(lineAt - 1) :
          \A msg \in [role : {"user", "assistant"}, text : {"A", "B", InternalContext}] :
             (\E k \in 1..Len(sends) :
                 sends[k].at = i /\ sends[k].role = msg.role /\ sends[k].text = msg.text)
             <=> /\ msg \in LineMessages(newLines[i])
                 /\ \A j \in 1..(i - 1) : msg \notin LineMessages(newLines[j])
    /\ \A k1, k2 \in 1..Len(sends) : k1 < k2 => sends[k1].at < sends[k2].at
    /\ batchPc = "returned" <=> (newLines # <<>> /\ lineAt = Len(newLines) + 1)

\* The call returned from a batch of a line that is not JSON, a line whose
\* extraction throws and a message, and the message was sent.
C36_Witness ==
    /\ batchPc = "returned"
    /\ Len(newLines) = 3
    /\ newLines[1] = "garbage"
    /\ newLines[2] = "badContent"
    /\ \E k \in 1..Len(sends) : sends[k].at = 3 /\ sends[k].ok

\* C37: the lines of a session reach its chat thread in the order the tailer
\* handed them over, the lines of a later batch after those of an earlier
\* one.
C37_BatchesPostedInOrder ==
    \A i, j \in 1..Len(posted) :
        (i < j /\ posted[i].session = posted[j].session)
        => posted[i].line < posted[j].line

(***************************************************************************)
(* New-session tasks that throw.                                           *)
(***************************************************************************)
\* guild.channels.create rejects (client.ts 183-187): the platform refuses
\* the channel; _handleNewSessionImpl throws and, past the finally block,
\* so does the handleNewSession call that awaits it (lines 122-128).
NSChannelCreateFails(t) ==
    /\ tasks[t].pc = "createChannel"
    /\ Finish(t, "threw")
    /\ UNCHANGED <<arrivals, linked, svars, dvars, uvars, cvars, lvars, ovars,
                   wvars, xvars>>

NextFail ==
    \/ NextChain
    \/ \E t \in Tasks : NSChannelCreateFails(t)

SpecFail == InitSync /\ [][NextFail]_vars

\* C38: a queued task can start as soon as the task it is chained on has
\* settled, thrown or not; a task ends as thrown only by its own failing step,
\* which changes no other task, and its caller sees the error.
C38_FailureNotPassedOn ==
    /\ [](\A t \in Tasks :
             (/\ tasks[t].pc = "queued"
              /\ tasks[t].prev # 0 => tasks[tasks[t].prev].pc = "done")
             => ENABLED NSStart(t))
    /\ [][\A t \in Tasks :
             /\ (tasks'[t].outcome = "threw" /\ tasks[t].outcome # "threw")
                => /\ tasks[t].pc = "createChannel"
                   /\ \A u \in Tasks \ {t} : tasks'[u] = tasks[u]
             /\ NSChannelCreateFails(t)
                => tasks'[t].pc = "done" /\ tasks'[t].outcome = "threw"]_vars

\* A task threw, and the task chained on it for the same key ran and made the
\* session's chat thread.
C38_Witness ==
    \E t, u \in Tasks :
        /\ tasks[u].prev = t
        /\ tasks[t].pc = "done" /\ tasks[t].outcome = "threw"
        /\ tasks[u].pc = "done" /\ tasks[u].outcome = "ok"
        /\ ThreadGetByCodexThreadId(threads, tasks[u].session) # NoRow

\* C39: no step changes the session id of a Thread row that has one.
C39_SessionIdNeverReplaced ==
    [][\A r \in threads : \A q \in threads' :
          (q.discord_thread_id = r.discord_thread_id /\ r.codex_thread_id # Null)
          => q.codex_thread_id = r.codex_thread_id]_vars

\* C40: a step of a process's release takes the lock file away only if the
\* file records that process's pid, written by its own acquisition; a file
\* of another process stays as it is, and a process that has released takes
\* no further step.
C40_ReleaseDeletesOwnLockOnly ==
    [][\A p \in Procs :
          /\ (procs[p].pc \in {"release", "unlink"} /\ procs'[p] # procs[p])
             => \/ lockFile' = lockFile
                \/ /\ lockFile = [creator |-> p, pid |-> p]
                   /\ lockFile' = NoLockFile
          /\ procs[p].pc = "exited" => procs'[p] = procs[p]]_vars

====
